---- MODULE Spec2Model ----
(***************************************************************************)
(* Model of the fractal generator's core (fractal-wasm/src/lib.rs):        *)
(*   - ChaoticAccumulator: orbit state, dense / sparse density store,      *)
(*     step_batch, step_batch_with_new, density, fill_rgba_log_soft,       *)
(*     get_rgba_rows;                                                      *)
(*   - FractalGenerator::test_chaos: the Lyapunov tester with its          *)
(*     Gram-Schmidt tangent evolution.                                     *)
(*                                                                         *)
(* Numbers.  An f64 is modelled as an exact real of the form (n/d)*sqrt(r) *)
(* (n integer, d > 0, gcd(n,d) = 1, r a square-free positive integer), or  *)
(* one of the IEEE specials NaN, +inf, -inf.  The arithmetic below is the  *)
(* IEEE arithmetic without rounding.  Orbit coordinates and coefficients   *)
(* are rationals (r = 1); square roots appear only in the tangent basis.   *)
(***************************************************************************)
EXTENDS Integers, Sequences, FiniteSets, TLC

(***************************************************************************)
(* f64 values                                                              *)
(***************************************************************************)
RECURSIVE Gcd(_, _)
Gcd(a, b) == IF b = 0 THEN a ELSE Gcd(b, a % b)

IAbs(i) == IF i < 0 THEN -i ELSE i

\* Largest f with f*f dividing n, found by trial division: <<f, n \div (f*f)>>.
RECURSIVE SquarePart(_, _, _, _)
SquarePart(n, f, out, keep) ==
    IF f * f > n THEN <<out, keep * n>>
    ELSE IF n % (f * f) = 0 THEN SquarePart(n \div (f * f), f, out * f, keep)
    ELSE IF n % f = 0 THEN SquarePart(n \div f, f + 1, out, keep * f)
    ELSE SquarePart(n, f + 1, out, keep)

NaN == [k |-> "nan", n |-> 0, d |-> 1, r |-> 1]
PInf == [k |-> "inf", n |-> 1, d |-> 1, r |-> 1]
NInf == [k |-> "inf", n |-> -1, d |-> 1, r |-> 1]

\* The finite value (n/d)*sqrt(r) in canonical form (d # 0, r >= 1).
Surd(n, d, r) ==
    IF n = 0 THEN [k |-> "fin", n |-> 0, d |-> 1, r |-> 1]
    ELSE IF d = 1 /\ r = 1 THEN [k |-> "fin", n |-> n, d |-> 1, r |-> 1]
    ELSE LET sp == SquarePart(r, 2, 1, 1)
             nn == (IF d < 0 THEN -n ELSE n) * sp[1]
             dd == IAbs(d)
             g  == Gcd(IAbs(nn), dd)
         IN  [k |-> "fin", n |-> nn \div g, d |-> dd \div g, r |-> sp[2]]

Rat(n, d) == Surd(n, d, 1)
Num(i) == Surd(i, 1, 1)

\* An integer value.
IsInt(a) == a.k = "fin" /\ a.d = 1 /\ a.r = 1
Whole(i) == [k |-> "fin", n |-> i, d |-> 1, r |-> 1]

IsNaN(a) == a.k = "nan"
IsInfinite(a) == a.k = "inf"
\* is_finite(): a finite number, the logarithm of one (see FLn) or the mean of
\* logarithms (see Exponent).
IsFinite(a) == a.k \in {"fin", "ln", "mean"}
Sign(a) == IF a.n > 0 THEN 1 ELSE IF a.n < 0 THEN -1 ELSE 0

FNeg(a) == [a EXCEPT !.n = -a.n]
FAbs(a) == [a EXCEPT !.n = IAbs(a.n)]

\* ln(p) + ln(q) = ln(p * q), which is 0 when p * q = 1.
LnProduct(p) == IF p = Whole(1) THEN Whole(0) ELSE [p EXCEPT !.k = "ln"]
LnOfProduct(a, b) ==
    LnProduct(Surd(a.n * b.n * Gcd(a.r, b.r), a.d * b.d,
                   (a.r \div Gcd(a.r, b.r)) * (b.r \div Gcd(a.r, b.r))))

\* a + b.  Two finite non-zero operands have the same radical wherever the
\* program adds them (components of one vector, terms of one polynomial).
FAdd(a, b) ==
    IF IsInt(a) /\ IsInt(b) THEN Whole(a.n + b.n)
    ELSE IF IsNaN(a) \/ IsNaN(b) THEN NaN
    ELSE IF IsInfinite(a) THEN (IF IsInfinite(b) /\ a.n # b.n THEN NaN ELSE a)
    ELSE IF IsInfinite(b) THEN b
    ELSE IF a.n = 0 THEN b
    ELSE IF b.n = 0 THEN a
    ELSE IF a.k = "ln" /\ b.k = "ln" THEN LnOfProduct(a, b)
    ELSE IF a.r = b.r THEN Surd(a.n * b.d + b.n * a.d, a.d * b.d, a.r)
    ELSE NaN

FSub(a, b) == FAdd(a, FNeg(b))

\* a * b (0 * inf is NaN).
FMul(a, b) ==
    IF IsInt(a) /\ IsInt(b) THEN Whole(a.n * b.n)
    ELSE IF IsNaN(a) \/ IsNaN(b) THEN NaN
    ELSE IF IsInfinite(a) \/ IsInfinite(b)
         THEN (IF Sign(a) * Sign(b) > 0 THEN PInf
               ELSE IF Sign(a) * Sign(b) < 0 THEN NInf ELSE NaN)
    ELSE IF a.n = 0 \/ b.n = 0 THEN Num(0)
    ELSE LET g == Gcd(a.r, b.r)
         IN  Surd(a.n * b.n * g, a.d * b.d, (a.r \div g) * (b.r \div g))

\* a / b.
FDiv(a, b) ==
    IF IsNaN(a) \/ IsNaN(b) THEN NaN
    ELSE IF IsInfinite(a)
         THEN (IF IsInfinite(b) THEN NaN
               ELSE IF Sign(a) * (IF b.n < 0 THEN -1 ELSE 1) > 0 THEN PInf ELSE NInf)
    ELSE IF IsInfinite(b) THEN Num(0)
    ELSE IF b.n = 0 THEN (IF a.n = 0 THEN NaN ELSE IF a.n > 0 THEN PInf ELSE NInf)
    ELSE FMul(a, Surd(b.d, b.n * b.r, b.r))

\* sqrt of a rational.
FSqrt(a) ==
    IF IsNaN(a) THEN NaN
    ELSE IF IsInfinite(a) THEN (IF a.n > 0 THEN PInf ELSE NaN)
    ELSE IF a.n < 0 THEN NaN
    ELSE IF a.r # 1 THEN NaN
    ELSE Surd(1, a.d, a.n * a.d)

\* a < b (false when either is NaN).
FLt(a, b) ==
    IF IsNaN(a) \/ IsNaN(b) THEN FALSE
    ELSE IF IsInfinite(a) THEN a.n < 0 /\ ~(IsInfinite(b) /\ b.n < 0)
    ELSE IF IsInfinite(b) THEN b.n > 0
    ELSE IF Sign(a) # Sign(b) THEN Sign(a) < Sign(b)
    ELSE IF a.r = b.r THEN a.n * b.d < b.n * a.d
    ELSE IF Sign(a) > 0 THEN a.n * a.n * a.r * b.d * b.d < b.n * b.n * b.r * a.d * a.d
    ELSE a.n * a.n * a.r * b.d * b.d > b.n * b.n * b.r * a.d * a.d

FGt(a, b) == FLt(b, a)
FLe(a, b) == ~IsNaN(a) /\ ~IsNaN(b) /\ ~FLt(b, a)
FGe(a, b) == FLe(b, a)

\* ln(a).  The logarithm of a positive value other than 1 is kept as the
\* symbolic value "ln of (n/d)*sqrt(r)"; it is finite, and positive exactly
\* when its argument exceeds 1.
FLn(a) ==
    IF IsNaN(a) THEN NaN
    ELSE IF IsInfinite(a) THEN (IF a.n > 0 THEN PInf ELSE NaN)
    ELSE IF a.n < 0 THEN NaN
    ELSE IF a.n = 0 THEN NInf
    ELSE IF a = Num(1) THEN Num(0)
    ELSE [a EXCEPT !.k = "ln"]

\* a > 0.0
FPos(a) ==
    IF a.k = "ln" THEN a.n > a.d \/ (a.n = a.d /\ a.r > 1)
    ELSE IF a.k = "mean" THEN a.of.n > a.of.d \/ (a.of.n = a.of.d /\ a.of.r > 1)
    ELSE ~IsNaN(a) /\ a.n > 0

\* `as usize`: truncation toward zero; NaN and negative values give 0, and
\* +inf saturates (to the largest integer of the model).
AsUsize(a) ==
    IF IsInfinite(a) /\ a.n > 0 THEN 2147483647
    ELSE IF ~IsFinite(a) \/ a.n <= 0 THEN 0
    ELSE a.n \div a.d

(***************************************************************************)
(* Polynomial maps (shared by the accumulator and the Lyapunov tester).    *)
(* A coefficient slice args[0..] is the sequence args[1..].                *)
(***************************************************************************)
map_quadratic(args, x, y) ==
    LET a == args[1]  b == args[2]  c == args[3]
        d == args[4]  e == args[5]  f == args[6]
    IN  FAdd(FAdd(FAdd(FAdd(FAdd(a, FMul(b, x)), FMul(c, FMul(x, x))),
                       FMul(d, FMul(x, y))), FMul(e, y)), FMul(f, FMul(y, y)))

map_cubic(args, x, y) ==
    FAdd(FAdd(FAdd(FAdd(FAdd(FAdd(FAdd(FAdd(FAdd(
        args[1],
        FMul(args[2], x)),
        FMul(FMul(args[3], x), x)),
        FMul(FMul(FMul(args[4], x), x), x)),
        FMul(FMul(FMul(args[5], x), x), y)),
        FMul(FMul(args[6], x), y)),
        FMul(FMul(FMul(args[7], x), y), y)),
        FMul(args[8], y)),
        FMul(FMul(args[9], y), y)),
        FMul(FMul(FMul(args[10], y), y), y))

(***************************************************************************)
(* ChaoticAccumulator                                                      *)
(***************************************************************************)
U16_MAX == 65535
MAX_CONTIGUOUS_PIXELS == 50000000

None == [some |-> FALSE, v |-> <<>>]
Some(v) == [some |-> TRUE, v |-> v]

Cubehelix == "Cubehelix"
Fire == "Fire"

\* vec![e; n]
Repeat(e, n) == [i \in 1..n |-> e]

\* Normalised values 0.0 and 1.0 (see the colour mapping below), and the
\* four zero bytes of a pixel no colour was written to.
MappedZero == [k |-> "zero", p |-> Num(1), q |-> Num(1)]
MappedOne == [k |-> "one", p |-> Num(1), q |-> Num(1)]
ZeroBytes == [rgb |-> [t |-> MappedZero, scheme |-> "none"], a |-> 0]

\* ChaoticAccumulator::new, with the ceiling MAX_CONTIGUOUS_PIXELS of the
\* dense backing as a parameter; p is the record of the constructor's arguments.
NewWithCeiling(p, ceiling) ==
    LET total_pixels == p.width * p.height
        use_chunked == total_pixels > ceiling
    IN  [x_params |-> p.x_params, y_params |-> p.y_params, is_cubic |-> p.is_cubic,
         width |-> p.width, height |-> p.height,
         min_x |-> p.min_x, max_x |-> p.max_x, min_y |-> p.min_y, max_y |-> p.max_y,
         x |-> p.start_x, y |-> p.start_y,
         density |-> IF use_chunked THEN None ELSE Some(Repeat(0, total_pixels)),
         sparse_rows |-> IF use_chunked THEN Some(Repeat(<<>>, p.height)) ELSE None,
         use_chunked |-> use_chunked,
         non_zero |-> 0,
         rgba_buf |-> IF use_chunked THEN None
                      ELSE Some(Repeat(ZeroBytes, total_pixels)),
         map_ready |-> FALSE, map_s |-> Num(1), map_denom |-> Num(1),
         map_color_scheme |-> Cubehelix, map_max_density |-> 0]

New(p) == NewWithCeiling(p, MAX_CONTIGUOUS_PIXELS)

\* HashMap<u32, u16>::get
RowGet(r, col) == IF col \in DOMAIN r THEN r[col] ELSE 0

get_density(a, idx) ==
    IF a.use_chunked
    THEN IF a.sparse_rows.some
         THEN IF a.width = 0 THEN 0
              ELSE LET row == idx \div a.width
                       col == idx % a.width
                   IN  IF row < Len(a.sparse_rows.v)
                       THEN RowGet(a.sparse_rows.v[row + 1], col)
                       ELSE 0
         ELSE 0
    ELSE IF a.density.some /\ idx < Len(a.density.v) THEN a.density.v[idx + 1] ELSE 0

\* A faulty set_density: the sparse store keeps a key for the value 0.
set_density_keeps_zero(a, idx, value) ==
    IF a.use_chunked
    THEN IF a.sparse_rows.some /\ a.width # 0
         THEN LET row == idx \div a.width
                  col == idx % a.width
              IN  IF row < Len(a.sparse_rows.v)
                  THEN LET r == a.sparse_rows.v[row + 1]
                       IN  [a EXCEPT !.sparse_rows.v[row + 1] =
                               [c \in (DOMAIN r) \cup {col} |->
                                   IF c = col THEN value ELSE r[c]]]
                  ELSE a
         ELSE a
    ELSE IF a.density.some /\ idx < Len(a.density.v)
         THEN [a EXCEPT !.density.v[idx + 1] = value]
         ELSE a

set_density(a, idx, value) ==
    IF a.use_chunked
    THEN IF a.sparse_rows.some /\ a.width # 0
         THEN LET row == idx \div a.width
                  col == idx % a.width
              IN  IF row < Len(a.sparse_rows.v)
                  THEN LET r == a.sparse_rows.v[row + 1]
                           r2 == IF value = 0
                                 THEN [c \in (DOMAIN r) \ {col} |-> r[c]]
                                 ELSE [c \in (DOMAIN r) \cup {col} |->
                                          IF c = col THEN value ELSE r[c]]
                       IN  [a EXCEPT !.sparse_rows.v[row + 1] = r2]
                  ELSE a
         ELSE a
    ELSE IF a.density.some /\ idx < Len(a.density.v)
         THEN [a EXCEPT !.density.v[idx + 1] = value]
         ELSE a

\* u16::saturating_add(1)
SaturatingInc(v) == IF v >= U16_MAX THEN U16_MAX ELSE v + 1

\* A faulty increment_density: the counters saturate at u8::MAX, as if the
\* store held u8 counts.
increment_density_u8(a, idx) ==
    IF a.use_chunked
    THEN IF a.sparse_rows.some
         THEN IF a.width = 0 THEN [acc |-> a, lit |-> FALSE]
              ELSE LET row == idx \div a.width
                       col == idx % a.width
                   IN  IF row >= Len(a.sparse_rows.v) THEN [acc |-> a, lit |-> FALSE]
                       ELSE LET r == a.sparse_rows.v[row + 1]
                            IN  IF col \in DOMAIN r
                                THEN [acc |-> IF r[col] < 255
                                              THEN [a EXCEPT !.sparse_rows.v[row + 1][col] =
                                                                 r[col] + 1]
                                              ELSE a,
                                      lit |-> FALSE]
                                ELSE [acc |-> [a EXCEPT !.sparse_rows.v[row + 1] =
                                                  [c \in (DOMAIN r) \cup {col} |->
                                                      IF c = col THEN 1 ELSE r[c]]],
                                      lit |-> TRUE]
         ELSE [acc |-> a, lit |-> FALSE]
    ELSE [acc |-> set_density(a, idx, IF get_density(a, idx) >= 255 THEN 255
                                      ELSE get_density(a, idx) + 1),
          lit |-> get_density(a, idx) = 0]

\* increment_density: the accumulator after the call and the returned flag.
increment_density(a, idx) ==
    IF a.use_chunked
    THEN IF a.sparse_rows.some
         THEN IF a.width = 0 THEN [acc |-> a, lit |-> FALSE]
              ELSE LET row == idx \div a.width
                       col == idx % a.width
                   IN  IF row >= Len(a.sparse_rows.v) THEN [acc |-> a, lit |-> FALSE]
                       ELSE LET r == a.sparse_rows.v[row + 1]
                            IN  IF col \in DOMAIN r
                                THEN [acc |-> IF r[col] < U16_MAX
                                              THEN [a EXCEPT !.sparse_rows.v[row + 1][col] =
                                                                 SaturatingInc(r[col])]
                                              ELSE a,
                                      lit |-> FALSE]
                                ELSE [acc |-> [a EXCEPT !.sparse_rows.v[row + 1] =
                                                  [c \in (DOMAIN r) \cup {col} |->
                                                      IF c = col THEN 1 ELSE r[c]]],
                                      lit |-> TRUE]
         ELSE [acc |-> a, lit |-> FALSE]
    ELSE LET current == get_density(a, idx)
             was_zero == current = 0
             new_val == IF current = U16_MAX THEN U16_MAX ELSE SaturatingInc(current)
         IN  [acc |-> set_density(a, idx, new_val), lit |-> was_zero]

\* A faulty bounds test: the y range is not tested.
InBoundsXOnly(a, x, y) == FGe(x, a.min_x) /\ FLe(x, a.max_x)

\* The bounds test of step_batch.
InBounds(a, x, y) ==
    FGe(x, a.min_x) /\ FLe(x, a.max_x) /\ FGe(y, a.min_y) /\ FLe(y, a.max_y)

\* Pixel coordinate of v in [lo, hi] on an axis of `size` pixels.
Rescale(v, lo, hi, size) ==
    AsUsize(FMul(FDiv(FSub(v, lo), FSub(hi, lo)), Num(size)))

\* The map applied to the current point: the new x and the new y.
NextX(a) == IF a.is_cubic THEN map_cubic(a.x_params, a.x, a.y)
            ELSE map_quadratic(a.x_params, a.x, a.y)
NextY(a) == IF a.is_cubic THEN map_cubic(a.y_params, a.x, a.y)
            ELSE map_quadratic(a.y_params, a.x, a.y)

\* A faulty count: non_zero is raised on every hit, lit or not.
CountLitEveryHit(inc) ==
    [acc |-> [inc.acc EXCEPT !.non_zero = @ + 1], lit |-> inc.lit]

\* `if self.increment_density(idx) { self.non_zero += 1; }`
CountLit(inc) ==
    IF inc.lit THEN [acc |-> [inc.acc EXCEPT !.non_zero = @ + 1], lit |-> TRUE]
    ELSE [acc |-> inc.acc, lit |-> FALSE]

\* A faulty binning: the pixel is counted without the test against the
\* canvas size.
BinPixelUnguarded(a, px, py) == CountLit(increment_density(a, py * a.width + px))

\* `if px < self.width && py < self.height { ... }`
BinPixel(a, px, py) ==
    IF px < a.width /\ py < a.height
    THEN CountLit(increment_density(a, py * a.width + px))
    ELSE [acc |-> a, lit |-> FALSE]

\* The binning of the current point (a.x, a.y).
BinPoint(a) ==
    IF InBounds(a, a.x, a.y)
    THEN BinPixel(a, Rescale(a.x, a.min_x, a.max_x, a.width),
                     Rescale(a.y, a.min_y, a.max_y, a.height))
    ELSE [acc |-> a, lit |-> FALSE]

\* A faulty iteration: the point is binned before the map is applied and
\* again after it.
StepPointBinsTwice(a) ==
    BinPoint([BinPoint(a).acc EXCEPT !.x = NextX(a), !.y = NextY(a)])

\* One iteration of the loop of step_batch / step_batch_with_new: the
\* accumulator after it and whether it lit a new pixel.
StepPoint(a) == BinPoint([a EXCEPT !.x = NextX(a), !.y = NextY(a)])

AddLit(s, new_pixels) ==
    [acc |-> s.acc, new_pixels |-> new_pixels + (IF s.lit THEN 1 ELSE 0)]

\* The loop `for _ in 0..n_points`, counting the newly lit pixels.
RECURSIVE StepLoop(_, _, _)
StepLoop(a, n_points, new_pixels) ==
    IF n_points = 0 THEN [acc |-> a, new_pixels |-> new_pixels]
    ELSE LET l == AddLit(StepPoint(a), new_pixels)
         IN  StepLoop(l.acc, n_points - 1, l.new_pixels)

BatchResult(l) ==
    [acc |-> l.acc,
     ret |-> <<l.acc.x, l.acc.y, Num(0), Num(l.acc.non_zero)>>]

BatchResultWithNew(l) ==
    [acc |-> l.acc,
     ret |-> <<l.acc.x, l.acc.y, Num(l.new_pixels), Num(l.acc.non_zero)>>]

\* A faulty step_batch: the loop `for _ in 1..n_points` is one iteration short.
step_batch_short(a, n_points) ==
    BatchResult(StepLoop(a, IF n_points = 0 THEN 0 ELSE n_points - 1, 0))

\* A faulty step_batch: the cached mapping is marked stale.
step_batch_invalidating(a, n_points) ==
    BatchResult([StepLoop(a, n_points, 0) EXCEPT !.acc.map_ready = FALSE])

\* step_batch: the accumulator after the call and the returned vector.
step_batch(a, n_points) == BatchResult(StepLoop(a, n_points, 0))

step_batch_with_new(a, n_points) == BatchResultWithNew(StepLoop(a, n_points, 0))

\* A faulty row base: the rows of the export are laid out `height` apart.
RowBaseByHeight(a, row_idx) == row_idx * a.height

\* `let base = row_idx * self.width;`
RowBase(a, row_idx) == row_idx * a.width

\* density(): the exported Vec<u32>.
density(a) ==
    IF a.use_chunked
    THEN LET total_pixels == a.width * a.height
             rows == IF a.sparse_rows.some THEN a.sparse_rows.v ELSE <<>>
             cells == UNION {{<<row, col>> : col \in DOMAIN rows[row + 1]} :
                                row \in 0..(Len(rows) - 1)}
         IN  [i \in 1..total_pixels |->
                 LET hits == {rc \in cells : RowBase(a, rc[1]) + rc[2] = i - 1}
                 IN  IF hits = {} THEN 0
                     ELSE LET rc == CHOOSE h \in hits : TRUE
                          IN  rows[rc[1] + 1][rc[2]]]
    ELSE IF a.density.some THEN a.density.v ELSE <<>>

(***************************************************************************)
(* Colour mapping.  The palette is opaque: a colour is the pair of the     *)
(* normalised value and the scheme it was computed from.  A normalised     *)
(* value is 0, 1, or ln(p)/ln(q) with 1 < p < q.  A pixel is the four      *)
(* bytes r, g, b, a, kept as the colour and the alpha byte.                *)
(***************************************************************************)
\* ((1.0 + s * d).ln() / denom).clamp(0.0, 1.0) for d > 0, else 0.0;
\* denom is a positive logarithm and s > 0 wherever this is evaluated.
Mapped(s, d, denom) ==
    IF d > 0
    THEN LET num == FLn(FAdd(Num(1), FMul(s, Num(d))))
             p == [num EXCEPT !.k = "fin"]
             q == [denom EXCEPT !.k = "fin"]
         IN  IF ~FLt(p, q) THEN MappedOne
             ELSE [k |-> "frac", p |-> p, q |-> q]
    ELSE MappedZero

apply_color_scheme_static(mapped, scheme) == [t |-> mapped, scheme |-> scheme]

Opaque(color) == [rgb |-> color, a |-> 255]

RECURSIVE SeqMax(_)
SeqMax(q) == IF q = <<>> THEN 0
             ELSE LET m == SeqMax(Tail(q)) IN IF Head(q) > m THEN Head(q) ELSE m

RECURSIVE SetMax(_)
SetMax(S) == IF S = {} THEN 0
             ELSE LET e == CHOOSE v \in S : TRUE
                      m == SetMax(S \ {e})
                  IN  IF e > m THEN e ELSE m

\* The maximum count of the store, as fill_rgba_log_soft finds it.
\* A faulty maximum: the sparse rows are not searched.
MaxDensityDenseOnly(a) ==
    IF a.use_chunked THEN 0
    ELSE IF a.density.some THEN SeqMax(a.density.v) ELSE 0

MaxDensity(a) ==
    IF a.use_chunked
    THEN IF a.sparse_rows.some
         THEN SetMax(UNION {{a.sparse_rows.v[i][c] : c \in DOMAIN a.sparse_rows.v[i]} :
                               i \in 1..Len(a.sparse_rows.v)})
         ELSE 0
    ELSE IF a.density.some THEN SeqMax(a.density.v) ELSE 0

ValidSoftness(softness) ==
    IF IsFinite(softness) /\ FPos(softness) THEN softness ELSE Num(1)

\* The cached mapping as fill_rgba_log_soft stores it.
WithMapping(a, max_density_u16, s, denom, color_scheme) ==
    [a EXCEPT !.map_max_density = max_density_u16,
              !.map_s = s, !.map_denom = denom,
              !.map_color_scheme = color_scheme, !.map_ready = TRUE]

\* `for b in rgba_buf.iter_mut() { *b = 0; }`
ClearBuf(a) ==
    IF a.rgba_buf.some
    THEN [a EXCEPT !.rgba_buf = Some(Repeat(ZeroBytes, Len(a.rgba_buf.v)))]
    ELSE a

\* The small-resolution buffer filled from the dense grid.
FillBuf(a, s, denom, color_scheme) ==
    IF ~a.use_chunked /\ a.density.some /\ a.rgba_buf.some
    THEN [a EXCEPT !.rgba_buf =
             Some([i \in 1..(a.width * a.height) |->
                     IF i <= Len(a.density.v)
                     THEN Opaque(apply_color_scheme_static(
                              Mapped(s, a.density.v[i], denom), color_scheme))
                     ELSE IF i <= Len(a.rgba_buf.v) THEN a.rgba_buf.v[i]
                     ELSE ZeroBytes])]
    ELSE a

FillWith(a, max_density_u16, s, denom, color_scheme) ==
    IF max_density_u16 = 0
    THEN WithMapping(ClearBuf(a), max_density_u16, s, Num(0), color_scheme)
    ELSE IF ~IsFinite(denom) \/ ~FPos(denom)
    THEN WithMapping(ClearBuf(a), max_density_u16, s, Num(0), color_scheme)
    ELSE FillBuf(WithMapping(a, max_density_u16, s, denom, color_scheme),
                 s, denom, color_scheme)

\* (1.0 + s * max_density).ln()
Denom(s, max_density_u16) == FLn(FAdd(Num(1), FMul(s, Num(max_density_u16))))

\* The grid with every count dropped.
Drained(a) ==
    [a EXCEPT !.density = IF a.density.some
                          THEN Some(Repeat(0, Len(a.density.v))) ELSE None,
              !.sparse_rows = IF a.sparse_rows.some
                              THEN Some(Repeat(<<>>, Len(a.sparse_rows.v))) ELSE None]

\* A faulty fill_rgba_log_soft: the grid is reset once the mapping is cached.
fill_rgba_log_soft_draining(a, color_scheme, softness) ==
    IF a.width = 0 \/ a.height = 0 THEN a
    ELSE Drained(FillWith(a, MaxDensity(a), ValidSoftness(softness),
                          Denom(ValidSoftness(softness), MaxDensity(a)), color_scheme))

fill_rgba_log_soft(a, color_scheme, softness) ==
    IF a.width = 0 \/ a.height = 0 THEN a
    ELSE FillWith(a, MaxDensity(a), ValidSoftness(softness),
                  Denom(ValidSoftness(softness), MaxDensity(a)), color_scheme)

\* A faulty get_rgba_rows: the rows are coloured whether or not a valid
\* mapping is cached.
get_rgba_rows_always_mapped(a, start_row, rows) ==
    LET h == a.height
        w == a.width
    IN  IF w = 0 \/ h = 0 \/ start_row >= h \/ rows = 0 THEN <<>>
        ELSE
        LET end_row == IF start_row + rows < h THEN start_row + rows ELSE h
            out_rows == end_row - start_row
            s == IF a.map_ready THEN a.map_s ELSE Num(1)
            denom == IF a.map_ready THEN a.map_denom ELSE Num(0)
            scheme == IF a.map_ready THEN a.map_color_scheme ELSE Cubehelix
        IN  [i \in 1..(out_rows * w) |->
                LET row == start_row + ((i - 1) \div w)
                    col == (i - 1) % w
                IN  IF a.use_chunked
                    THEN IF a.sparse_rows.some /\ row < Len(a.sparse_rows.v)
                            /\ col \in DOMAIN a.sparse_rows.v[row + 1]
                         THEN Opaque(apply_color_scheme_static(
                                  Mapped(s, a.sparse_rows.v[row + 1][col], denom),
                                  scheme))
                         ELSE ZeroBytes
                    ELSE Opaque(apply_color_scheme_static(
                             Mapped(s, get_density(a, row * w + col), denom), scheme))]

\* get_rgba_rows: the returned buffer, one entry per pixel (four bytes).
\* start_row + rows is computed here without a word width: see
\* get_rgba_rows_usize for the machine-word arguments.
get_rgba_rows(a, start_row, rows) ==
    LET h == a.height
        w == a.width
    IN  IF w = 0 \/ h = 0 \/ start_row >= h \/ rows = 0 THEN <<>>
        ELSE
        LET end_row == IF start_row + rows < h THEN start_row + rows ELSE h
            out_rows == end_row - start_row
            s == IF a.map_ready THEN a.map_s ELSE Num(1)
            denom == IF a.map_ready THEN a.map_denom ELSE Num(0)
            scheme == IF a.map_ready THEN a.map_color_scheme ELSE Cubehelix
        IN  IF a.map_max_density = 0 \/ ~IsFinite(denom) \/ ~FPos(denom)
            THEN Repeat(ZeroBytes, out_rows * w)
            ELSE [i \in 1..(out_rows * w) |->
                    LET row == start_row + ((i - 1) \div w)
                        col == (i - 1) % w
                    IN  IF a.use_chunked
                        THEN IF a.sparse_rows.some /\ row < Len(a.sparse_rows.v)
                                /\ col \in DOMAIN a.sparse_rows.v[row + 1]
                             THEN Opaque(apply_color_scheme_static(
                                      Mapped(s, a.sparse_rows.v[row + 1][col], denom),
                                      scheme))
                             ELSE ZeroBytes
                        ELSE Opaque(apply_color_scheme_static(
                                 Mapped(s, get_density(a, row * w + col), denom), scheme))]

(***************************************************************************)
(* FractalGenerator::test_chaos, the Lyapunov tester.                      *)
(***************************************************************************)
STUCK_LIMIT == 15

\* [[2c1 x + d1 y + b1, d1 x + 2 f1 y + e1], ...]: one row of the matrix.
JacobianRowQuadratic(a, x, y) ==
    <<FAdd(FAdd(FMul(FMul(Num(2), a[3]), x), FMul(a[4], y)), a[2]),
      FAdd(FAdd(FMul(a[4], x), FMul(FMul(Num(2), a[6]), y)), a[5])>>

jacobian_quadratic(args1, args2, x, y) ==
    <<JacobianRowQuadratic(args1, x, y), JacobianRowQuadratic(args2, x, y)>>

JacobianRowCubic(a, x, y) ==
    <<FAdd(FAdd(FAdd(FAdd(FAdd(
          a[2],
          FMul(FMul(Num(2), a[3]), x)),
          FMul(FMul(Num(3), a[4]), FMul(x, x))),
          FMul(FMul(FMul(Num(2), a[5]), y), x)),
          FMul(a[6], y)),
          FMul(a[7], FMul(y, y))),
      FAdd(FAdd(FAdd(FAdd(FAdd(
          FMul(a[5], FMul(x, x)),
          FMul(a[6], x)),
          FMul(FMul(FMul(a[7], x), Num(2)), y)),
          a[8]),
          FMul(FMul(Num(2), a[9]), y)),
          FMul(FMul(FMul(Num(3), a[10]), y), y))>>

jacobian_cubic(args1, args2, x, y) ==
    <<JacobianRowCubic(args1, x, y), JacobianRowCubic(args2, x, y)>>

\* A faulty check_unbounded: the coordinates are compared without abs().
check_unbounded_signed(x, y, thresh) ==
    \/ FGt(x, thresh)
    \/ FGt(y, thresh)
    \/ IsNaN(x) \/ IsNaN(y)
    \/ IsInfinite(x) \/ IsInfinite(y)

\* x.abs() > thresh || y.abs() > thresh || NaN || infinite
check_unbounded(x, y, thresh) ==
    \/ FGt(FAbs(x), thresh)
    \/ FGt(FAbs(y), thresh)
    \/ IsNaN(x) \/ IsNaN(y)
    \/ IsInfinite(x) \/ IsInfinite(y)

\* |d| < 1e-16.  The coordinates of the model are rationals with small
\* denominators, so a difference below 1e-16 is a difference of 0.
BelowTiny(d) == IsFinite(d) /\ d.n = 0

\* A faulty check_movement: both coordinates must have stopped.
check_movement_both(x, y, xp, yp) ==
    BelowTiny(FAbs(FSub(x, xp))) /\ BelowTiny(FAbs(FSub(y, yp)))

check_movement(x, y, xp, yp) ==
    BelowTiny(FAbs(FSub(x, xp))) \/ BelowTiny(FAbs(FSub(y, yp)))

mat_vec_mult(mat, vec) ==
    <<FAdd(FMul(mat[1][1], vec[1]), FMul(mat[1][2], vec[2])),
      FAdd(FMul(mat[2][1], vec[1]), FMul(mat[2][2], vec[2]))>>

dot_product(v1, v2) == FAdd(FMul(v1[1], v2[1]), FMul(v1[2], v2[2]))

determinant(mat) ==
    FSub(FMul(mat[1][1], mat[2][2]), FMul(mat[1][2], mat[2][1]))

\* `v2[0] -= (dot_12 / dot_11) * v1[0]; v2[1] -= (dot_12 / dot_11) * v1[1];`
Orthogonalize(v1, v2, dot_11, dot_12) ==
    <<FSub(v2[1], FMul(FDiv(dot_12, dot_11), v1[1])),
      FSub(v2[2], FMul(FDiv(dot_12, dot_11), v1[2]))>>

\* `v[0] /= s; v[1] /= s;`
Normalize(v, s) == <<FDiv(v[1], s), FDiv(v[2], s)>>

\* The Gram-Schmidt block of both loops: the three dot products are taken of
\* the images v1, v2 before v2 is orthogonalized, and v2 is then divided by
\* the square root of that dot_22.
GramSchmidtWith(v1, v2, dot_11, dot_12, dot_22) ==
    [v1 |-> Normalize(v1, FSqrt(dot_11)),
     v2 |-> Normalize(Orthogonalize(v1, v2, dot_11, dot_12), FSqrt(dot_22)),
     sqrt_dot_11 |-> FSqrt(dot_11),
     sqrt_dot_22 |-> FSqrt(dot_22)]

GramSchmidt(v1, v2) ==
    GramSchmidtWith(v1, v2, dot_product(v1, v1), dot_product(v1, v2),
                    dot_product(v2, v2))

\* `v1 = mat_vec_mult(m, v1); v2 = mat_vec_mult(m, v2);` and the block above.
Tangent(m, v1, v2) == GramSchmidt(mat_vec_mult(m, v1), mat_vec_mult(m, v2))

\* The two maps and the Jacobian selected by is_cubic.
MapX(t, x, y) == IF t.is_cubic THEN map_cubic(t.args1, x, y)
                 ELSE map_quadratic(t.args1, x, y)
MapY(t, x, y) == IF t.is_cubic THEN map_cubic(t.args2, x, y)
                 ELSE map_quadratic(t.args2, x, y)
Jacobian(t, x, y) == IF t.is_cubic THEN jacobian_cubic(t.args1, t.args2, x, y)
                     ELSE jacobian_quadratic(t.args1, t.args2, x, y)

\* 0.05, the seed of test_chaos and of iterate_map.
Seed == Rat(1, 20)

\* (-1.0, -1.0, -1.0)
Sentinel == <<Num(-1), Num(-1), Num(-1)>>

\* The locals of a test_chaos call at the head of the transient loop:
\* t and i count the finished iterations of the two loops.
Entry(args1, args2, n_trans, n_test, thresh, is_cubic) ==
    [args1 |-> args1, args2 |-> args2, n_trans |-> n_trans, n_test |-> n_test,
     thresh |-> thresh, is_cubic |-> is_cubic,
     pc |-> "run", t |-> 0, i |-> 0,
     x |-> Seed, y |-> Seed,
     v1 |-> <<Num(1), Num(0)>>, v2 |-> <<Num(0), Num(1)>>,
     max_le |-> Num(0), min_le |-> Num(0), c |-> Num(0), count |-> 0,
     ret |-> <<>>]

Return(t, r) == [t EXCEPT !.pc = "done", !.ret = r]

\* One iteration of the transient loop, the new point being (x, y).
TransientWith(t, x, y, g) ==
    [t EXCEPT !.x = x, !.y = y, !.v1 = g.v1, !.v2 = g.v2, !.t = @ + 1]

TransientIter(t, x, y) ==
    TransientWith(t, x, y, Tangent(Jacobian(t, x, y), t.v1, t.v2))

\* The tangent update and the three sums of a measurement iteration.
MeasureWith(t, x, y, m, g) ==
    [t EXCEPT !.x = x, !.y = y, !.v1 = g.v1, !.v2 = g.v2,
              !.max_le = FAdd(@, FLn(g.sqrt_dot_11)),
              !.min_le = FAdd(@, FLn(g.sqrt_dot_22)),
              !.c = FAdd(@, FLn(FAbs(determinant(m)))),
              !.i = @ + 1]

MeasureTangent(t, x, y, m) == MeasureWith(t, x, y, m, Tangent(m, t.v1, t.v2))

\* One iteration of the measurement loop, the new point being (x, y): the
\* divergence check, the fixed-point counter, then the tangent update.
MeasureIter(t, x, y) ==
    IF check_unbounded(x, y, t.thresh)
    THEN Return([t EXCEPT !.x = x, !.y = y], Sentinel)
    ELSE IF check_movement(x, y, t.x, t.y)
    THEN IF t.count + 1 >= STUCK_LIMIT
         THEN Return([t EXCEPT !.x = x, !.y = y, !.count = @ + 1], Sentinel)
         ELSE MeasureTangent([t EXCEPT !.count = @ + 1], x, y, Jacobian(t, x, y))
    ELSE MeasureTangent([t EXCEPT !.count = IF @ > 0 THEN @ - 1 ELSE @],
                        x, y, Jacobian(t, x, y))

\* n is a power of two, and its exponent.
RECURSIVE IsPow2(_)
IsPow2(n) == n = 1 \/ (n > 1 /\ n % 2 = 0 /\ IsPow2(n \div 2))

RECURSIVE Log2Of(_)
Log2Of(n) == IF n <= 1 THEN 0 ELSE 1 + Log2Of(n \div 2)

\* sum / n_test_f / log2.  A sum is 0, a logarithm, an infinity or NaN.  The
\* logarithm of 2^j divided by ln 2 is j; the mean of any other logarithm is
\* kept as the pair of the sum and the step count.
Exponent(sum, n_test) ==
    IF sum.k = "ln"
    THEN IF n_test = 0 THEN (IF FPos(sum) THEN PInf ELSE NInf)
         ELSE IF sum.r = 1 /\ sum.d = 1 /\ IsPow2(sum.n)
         THEN Rat(Log2Of(sum.n), n_test)
         ELSE IF sum.r = 1 /\ sum.n = 1 /\ IsPow2(sum.d)
         THEN Rat(-Log2Of(sum.d), n_test)
         ELSE [k |-> "mean", of |-> sum, per |-> n_test]
    ELSE FDiv(sum, Num(n_test))

\* The tail of test_chaos.
Finished(t) ==
    Return(t, <<Exponent(t.max_le, t.n_test), Exponent(t.min_le, t.n_test),
                Exponent(t.c, t.n_test)>>)

\* iterate_map: the points of the trajectory from the seed.
RECURSIVE IterateFrom(_, _, _, _)
IterateFrom(t, x, y, n_points) ==
    IF n_points = 0 THEN <<>>
    ELSE <<<<MapX(t, x, y), MapY(t, x, y)>>>>
         \o IterateFrom(t, MapX(t, x, y), MapY(t, x, y), n_points - 1)

iterate_map(args1, args2, n_points, is_cubic) ==
    IterateFrom([args1 |-> args1, args2 |-> args2, is_cubic |-> is_cubic],
                Seed, Seed, n_points)

\* A faulty fractal_dimension: the quotient is taken by min_le, not |min_le|.
fractal_dimension_signed(max_le, min_le) ==
    IF FLt(max_le, Num(0)) THEN Num(0)
    ELSE IF FGt(FAdd(max_le, min_le), Num(0))
    THEN FAdd(Num(2), FDiv(FAdd(max_le, min_le), min_le))
    ELSE FAdd(Num(1), FDiv(max_le, min_le))

\* fractal_dimension: `j + (pos_sum / min_le.abs())` with (j, pos_sum) =
\* (2.0, sum) when sum > 0.0 and (1.0, max_le) otherwise.
fractal_dimension(max_le, min_le) ==
    IF FLt(max_le, Num(0)) THEN Num(0)
    ELSE IF FGt(FAdd(max_le, min_le), Num(0))
    THEN FAdd(Num(2), FDiv(FAdd(max_le, min_le), FAbs(min_le)))
    ELSE FAdd(Num(1), FDiv(max_le, FAbs(min_le)))

\* (fd - i).abs() < 0.11
NearInteger(fd, i) == FLt(FAbs(FSub(fd, Num(i))), Rat(11, 100))

exclude_quadratic(max_le, min_le, c, fd, thresh) ==
    FLe(max_le, thresh) \/ NearInteger(fd, 1)

exclude_cubic(max_le, min_le, c, fd, thresh) ==
    FLe(max_le, thresh) \/ NearInteger(fd, 1) \/ NearInteger(fd, 2)

(***************************************************************************)
(* The accumulator session.  Two accumulators are created from the same    *)
(* arguments, one with the ceiling of the program (dense for every canvas  *)
(* of the model) and one with the ceiling forced down (sparse), and every  *)
(* call is made on both.                                                   *)
(***************************************************************************)
MaxSteps == 4
MaxBatch == 2
MaxRow == 1
ForcedSparseCeiling == 0
SatSteps == 65537

Backings == {"dense", "sparse"}
Ceiling(b) == IF b = "dense" THEN MAX_CONTIGUOUS_PIXELS ELSE ForcedSparseCeiling

Coeffs(q) == [i \in 1..Len(q) |-> Num(q[i])]

\* x' = x, y' = y
IdentityMap == [x_params |-> Coeffs(<<0, 1, 0, 0, 0, 0>>),
                y_params |-> Coeffs(<<0, 0, 0, 0, 1, 0>>), is_cubic |-> FALSE]
\* x' = x + 1, y' = y
ShiftMap == [x_params |-> Coeffs(<<1, 1, 0, 0, 0, 0>>),
             y_params |-> Coeffs(<<0, 0, 0, 0, 1, 0>>), is_cubic |-> FALSE]
\* x' = y, y' = 4 - x
TurnMap == [x_params |-> Coeffs(<<0, 0, 0, 0, 1, 0>>),
            y_params |-> Coeffs(<<4, -1, 0, 0, 0, 0>>), is_cubic |-> FALSE]
\* x' = 2 - x^2, y' = x*y
SquareMap == [x_params |-> Coeffs(<<2, 0, -1, 0, 0, 0>>),
              y_params |-> Coeffs(<<0, 0, 0, 1, 0, 0>>), is_cubic |-> FALSE]
\* x' = y, y' = 3x - x^3
CubeMap == [x_params |-> Coeffs(<<0, 0, 0, 0, 0, 0, 0, 1, 0, 0>>),
            y_params |-> Coeffs(<<0, 3, 0, -1, 0, 0, 0, 0, 0, 0>>), is_cubic |-> TRUE]

Maps == {IdentityMap, ShiftMap, TurnMap, SquareMap, CubeMap}
Starts == {<<Num(1), Num(1)>>, <<Num(0), Num(1)>>, <<Num(2), Num(1)>>}
Dims == {<<2, 2>>, <<3, 2>>}
Schemes == {Cubehelix, Fire}
Softness == {Num(2), Num(0), NaN}

CtorArgs(m, st, dm) ==
    [x_params |-> m.x_params, y_params |-> m.y_params, is_cubic |-> m.is_cubic,
     width |-> dm[1], height |-> dm[2],
     min_x |-> Num(0), max_x |-> Num(4), min_y |-> Num(0), max_y |-> Num(4),
     start_x |-> st[1], start_y |-> st[2]]

VARIABLES
    args,    \* the arguments the accumulators were created with
    acc,     \* acc[b]: the accumulator with backing b
    ret,     \* ret[b]: the last call on acc[b] and what it returned
    steps,   \* orbit steps taken by all the step_batch calls so far
    tc,      \* the locals of the test_chaos call in progress
    fc,      \* the locals of the find_random_chaos_extended call in progress
    call,    \* the stateless boundary call made last: its arguments and result
    host     \* the Tauri host: the AppState mutex and the commands in flight

vars == <<args, acc, ret, steps, tc, fc, call, host>>

\* No test_chaos call is in progress.
NoTest == [pc |-> "idle"]

\* No search is in progress, no boundary call was made, no host is running.
NoFind == [pc |-> "idle"]
NoCall == [op |-> "none"]
NoHost == [pc |-> "off"]

NoRet == [op |-> "new", n |-> 0, val |-> <<>>]

InitWith(m, st, dm) ==
    /\ args = CtorArgs(m, st, dm)
    /\ acc = [b \in Backings |-> NewWithCeiling(CtorArgs(m, st, dm), Ceiling(b))]
    /\ ret = [b \in Backings |-> NoRet]
    /\ steps = 0

Init ==
    /\ \E m \in Maps, st \in Starts, dm \in Dims : InitWith(m, st, dm)
    /\ tc = NoTest /\ fc = NoFind /\ call = NoCall /\ host = NoHost

\* The results of one call on the two accumulators.
Pair(d, s) == [dense |-> d, sparse |-> s]

\* Both accumulators make the same call.
OnBoth(r, op, n) ==
    /\ acc' = [b \in Backings |-> r[b].acc]
    /\ ret' = [b \in Backings |-> [op |-> op, n |-> n, val |-> r[b].ret]]
    /\ steps' = steps + n
    /\ UNCHANGED <<args, tc, fc, call, host>>

DoStepBatch(n) ==
    OnBoth(Pair(step_batch(acc["dense"], n), step_batch(acc["sparse"], n)),
           "step_batch", n)

StepBatch ==
    \E n \in 0..MaxBatch :
        /\ steps + n <= MaxSteps
        /\ DoStepBatch(n)

StepBatchWithNew ==
    \E n \in 0..MaxBatch :
        /\ steps + n <= MaxSteps
        /\ OnBoth(Pair(step_batch_with_new(acc["dense"], n),
                       step_batch_with_new(acc["sparse"], n)),
                  "step_batch_with_new", n)

FillMapping ==
    \E scheme \in Schemes, softness \in Softness :
        /\ acc' = [b \in Backings |-> fill_rgba_log_soft(acc[b], scheme, softness)]
        /\ ret' = [b \in Backings |-> [op |-> "fill_rgba_log_soft", n |-> 0, val |-> <<>>]]
        /\ UNCHANGED <<args, steps, tc, fc, call, host>>

RenderRows ==
    \E start_row \in 0..MaxRow, rows \in 0..MaxRow :
        /\ ret' = [b \in Backings |->
                      [op |-> "get_rgba_rows", n |-> 0,
                       val |-> get_rgba_rows(acc[b], start_row, rows)]]
        /\ UNCHANGED <<args, acc, steps, tc, fc, call, host>>

ExportDensity ==
    /\ ret' = [b \in Backings |-> [op |-> "density", n |-> 0, val |-> density(acc[b])]]
    /\ UNCHANGED <<args, acc, steps, tc, fc, call, host>>

Next ==
    \/ StepBatch
    \/ StepBatchWithNew
    \/ FillMapping
    \/ RenderRows
    \/ ExportDensity

Spec == Init /\ [][Next]_vars

\* The rows get_rgba_rows is asked for that exist: none from start_row >= h
\* or for rows = 0, else those from start_row up to the last row.
RowsOut(h, start_row, rows) ==
    IF start_row < h /\ rows > 0
    THEN (IF start_row + rows < h THEN start_row + rows ELSE h) - start_row
    ELSE 0

\* No valid mapping is cached: fill_rgba_log_soft was never called, or its
\* last call found the maximum count 0.
Unmapped(a) == ~a.map_ready \/ a.map_max_density = 0

\* C14 (render without mapping): whatever the grid holds, get_rgba_rows on an
\* accumulator without a valid mapping returns, for every start_row and rows,
\* the buffer of the rows asked for with every byte 0.
RenderWithoutMapping ==
    \A b \in Backings, start_row \in 0..(MaxRow + 1), rows \in 0..(MaxRow + 1) :
        Unmapped(acc[b]) =>
            get_rgba_rows(acc[b], start_row, rows)
                = Repeat(ZeroBytes,
                         RowsOut(acc[b].height, start_row, rows) * acc[b].width)

\* A mapping was computed on the empty grid, points were binned afterwards,
\* and the rows rendered then are not empty and all zero.
RenderWithoutMappingSeen ==
    \A b \in Backings :
        /\ acc[b].map_ready /\ acc[b].map_max_density = 0
        /\ MaxDensity(acc[b]) > 0
        /\ ret[b].op = "get_rgba_rows"
        /\ ret[b].val # <<>>
        /\ \A i \in DOMAIN ret[b].val : ret[b].val[i] = ZeroBytes

(***************************************************************************)
(* Properties of the accumulator session.                                  *)
(***************************************************************************)
RECURSIVE Sum(_)
Sum(q) == IF q = <<>> THEN 0 ELSE Head(q) + Sum(Tail(q))

\* Number of cells of an exported grid with a count above 0.
Lit(q) == Cardinality({i \in DOMAIN q : q[i] > 0})

StepOps == {"step_batch", "step_batch_with_new"}

\* The accumulator of backing b as the constructor made it.
Fresh(b) == NewWithCeiling(args, Ceiling(b))

\* What a caller observes of an accumulator: orbit position, grid, non_zero.
Observed(a) == <<a.x, a.y, density(a), a.non_zero>>

\* The current point lies outside [min_x, max_x] x [min_y, max_y].
OutOfBounds(a) ==
    \/ FLt(a.x, a.min_x) \/ FGt(a.x, a.max_x)
    \/ FLt(a.y, a.min_y) \/ FGt(a.y, a.max_y)

\* C2 (backing equivalence): after every call the dense and the sparse
\* accumulator export the same density array (same length, same count in
\* every cell) and hold the same non_zero; the arrays and the counts the
\* calls return are the same too.
BackingEquivalence ==
    /\ density(acc["dense"]) = density(acc["sparse"])
    /\ acc["dense"].non_zero = acc["sparse"].non_zero
    /\ ret["dense"].op = "density" => ret["dense"].val = ret["sparse"].val
    /\ ret["dense"].op \in StepOps => ret["dense"].val[4] = ret["sparse"].val[4]

\* Both backings exported a grid that holds counts in two cells or more,
\* after three steps or more.
BackingEquivalenceSeen ==
    /\ steps >= 3
    /\ \A b \in Backings : ret[b].op = "density" /\ Lit(ret[b].val) >= 2
    /\ acc["dense"].use_chunked = FALSE /\ acc["sparse"].use_chunked = TRUE

\* C3 (batch continuity): however the steps taken so far were split into
\* batches, the orbit position, the density grid and non_zero are those one
\* single batch of that many steps leaves on a fresh accumulator.
BatchContinuity ==
    \A b \in Backings :
        Observed(acc[b]) = Observed(step_batch(Fresh(b), steps).acc)

\* Four steps were taken, the last two of them as one batch of two, and the
\* grid holds counts.
BatchContinuitySeen ==
    /\ steps = 4
    /\ \A b \in Backings :
           ret[b].op = "step_batch" /\ ret[b].n = 2 /\ acc[b].non_zero >= 2

\* C4 (bounds dropping): a batch of one step whose point lands outside the
\* bounds changes no cell and not non_zero, reports no newly lit pixel, and
\* the orbit is at the image of the previous point.
BoundsDropping ==
    [][\A b \in Backings :
          (steps' = steps + 1 /\ OutOfBounds(acc'[b])) =>
              /\ density(acc'[b]) = density(acc[b])
              /\ acc'[b].non_zero = acc[b].non_zero
              /\ ret'[b].val[3] = Num(0)
              /\ ret'[b].val[4] = Num(acc[b].non_zero)
              /\ acc'[b].x = NextX(acc[b])
              /\ acc'[b].y = NextY(acc[b])]_vars

\* A batch of one step left the orbit outside the bounds, on a grid that
\* already holds counts.
BoundsDroppingSeen ==
    \A b \in Backings :
        /\ ret[b].op \in StepOps /\ ret[b].n = 1
        /\ OutOfBounds(acc[b])
        /\ acc[b].non_zero >= 1

\* C5 (monotonic cells): no operation lowers the count of a cell.
MonotonicCells ==
    [][\A b \in Backings :
          \A i \in DOMAIN density(acc[b]) :
              density(acc'[b])[i] >= density(acc[b])[i]]_vars

\* The colour mapping was computed over a grid with a cell hit twice or more.
MonotonicCellsSeen ==
    \A b \in Backings :
        /\ ret[b].op = "fill_rgba_log_soft"
        /\ acc[b].map_ready
        /\ \E i \in DOMAIN density(acc[b]) : density(acc[b])[i] >= 2

\* C6 (count bound): the sum of the counts is at most the number of steps
\* taken, and a call raises the sum by at most the number of its steps.
CountBound ==
    /\ [](\A b \in Backings : Sum(density(acc[b])) <= steps)
    /\ [][\A b \in Backings :
             Sum(density(acc'[b])) - Sum(density(acc[b])) <= steps' - steps]_vars

\* Some steps were counted and some were dropped.
CountBoundSeen ==
    \A b \in Backings :
        Sum(density(acc[b])) >= 2 /\ Sum(density(acc[b])) < steps

\* C7 (non-zero count): non_zero, and the count a step_batch call returns,
\* is the number of cells of the exported grid with a count above 0.
NonZeroCount ==
    \A b \in Backings :
        /\ acc[b].non_zero = Lit(density(acc[b]))
        /\ ret[b].op \in StepOps => ret[b].val[4] = Num(Lit(density(acc[b])))

\* A step_batch call returned with two cells or more lit and one of them
\* hit more than once.
NonZeroCountSeen ==
    \A b \in Backings :
        /\ ret[b].op \in StepOps
        /\ acc[b].non_zero >= 2
        /\ \E i \in DOMAIN density(acc[b]) : density(acc[b])[i] >= 2

\* C8 (newly-lit report): the third value a step_batch or a
\* step_batch_with_new call returns is the number of cells the call lit,
\* non_zero after the call minus non_zero before it.
NewlyLitReport ==
    [][\A b \in Backings :
          ret'[b].op \in StepOps =>
              ret'[b].val[3] = Num(acc'[b].non_zero - acc[b].non_zero)]_vars

\* Saturation runs: one cell of a 1 x 1 canvas under the identity map, stepped
\* one point at a time past the range of a u16.
InitSat ==
    /\ InitWith(IdentityMap, <<Num(1), Num(1)>>, <<1, 1>>)
    /\ tc = NoTest /\ fc = NoFind /\ call = NoCall /\ host = NoHost

SatStep ==
    /\ steps < SatSteps
    /\ DoStepBatch(1)

NextSat == SatStep

SpecSat == InitSat /\ [][NextSat]_vars

Min(i, j) == IF i < j THEN i ELSE j

\* C1 (saturation): on both backings the count of the cell after any number
\* of increments is min(number of increments, 65535): it stays at 65535 once
\* there and never wraps.
Saturation ==
    \A b \in Backings : get_density(acc[b], 0) = Min(steps, U16_MAX)

\* The cell was incremented past 65535 and holds 65535 on both backings.
SaturationSeen ==
    /\ steps > U16_MAX + 1
    /\ \A b \in Backings : density(acc[b]) = <<U16_MAX>>

(***************************************************************************)
(* Lyapunov tests: one test_chaos call per behaviour, its arguments drawn  *)
(* from the sets below, run one loop iteration at a time.  The threshold   *)
(* is an argument of test_chaos; the orbits of the model cross ThreshArg.  *)
(***************************************************************************)
MaxTrans == 2
MaxTest == 2
ThreshArg == 100

\* x' = -300 - x, y' = 1 - y: every other iterate lies beyond the threshold.
FlipMap == [x_params |-> Coeffs(<<-300, -1, 0, 0, 0, 0>>),
            y_params |-> Coeffs(<<1, 0, 0, 0, -1, 0>>), is_cubic |-> FALSE]
\* x' = 300 + x, y' = 1 - y: every iterate lies beyond the threshold.
LeapMap == [x_params |-> Coeffs(<<300, 1, 0, 0, 0, 0>>),
            y_params |-> Coeffs(<<1, 0, 0, 0, -1, 0>>), is_cubic |-> FALSE]
\* x' = 90 + 2x, y' = 1 - y: the second iterate is the first beyond it.
CreepMap == [x_params |-> Coeffs(<<90, 2, 0, 0, 0, 0>>),
             y_params |-> Coeffs(<<1, 0, 0, 0, -1, 0>>), is_cubic |-> FALSE]
\* x' = x + y, y' = 1 - y: a shear, whose images of an orthonormal basis are
\* not orthogonal.
ShearMap == [x_params |-> Coeffs(<<0, 1, 0, 0, 1, 0>>),
             y_params |-> Coeffs(<<1, 0, 0, 0, -1, 0>>), is_cubic |-> FALSE]
\* x' = 2x, y' = 1 - y/2
ScaleMap == [x_params |-> Coeffs(<<0, 2, 0, 0, 0, 0>>),
             y_params |-> <<Num(1), Num(0), Num(0), Num(0), Rat(-1, 2), Num(0)>>,
             is_cubic |-> FALSE]
\* x' = 1 - y, y' = x, as a cubic map: a quarter turn.
QuarterMap == [x_params |-> Coeffs(<<1, 0, 0, 0, 0, 0, 0, -1, 0, 0>>),
               y_params |-> Coeffs(<<0, 1, 0, 0, 0, 0, 0, 0, 0, 0>>),
               is_cubic |-> TRUE]

LyapMaps == {FlipMap, LeapMap, CreepMap, ShearMap, ScaleMap, QuarterMap, IdentityMap}

InitLyap ==
    /\ InitWith(IdentityMap, <<Num(1), Num(1)>>, <<1, 1>>)
    /\ \E m \in LyapMaps, n_trans \in 0..MaxTrans, n_test \in 0..MaxTest :
          tc = Entry(m.x_params, m.y_params, n_trans, n_test, Num(ThreshArg),
                     m.is_cubic)
    /\ fc = NoFind /\ call = NoCall /\ host = NoHost

\* One iteration of `for _ in 0..n_trans`.
TransientStep ==
    /\ tc.pc = "run" /\ tc.t < tc.n_trans
    /\ tc' = TransientIter(tc, MapX(tc, tc.x, tc.y), MapY(tc, tc.x, tc.y))
    /\ UNCHANGED <<args, acc, ret, steps, fc, call, host>>

\* One iteration of `for _ in 0..n_test`.
MeasureStep ==
    /\ tc.pc = "run" /\ tc.t = tc.n_trans /\ tc.i < tc.n_test
    /\ tc' = MeasureIter(tc, MapX(tc, tc.x, tc.y), MapY(tc, tc.x, tc.y))
    /\ UNCHANGED <<args, acc, ret, steps, fc, call, host>>

\* Both loops are over: the exponents are returned.
Finish ==
    /\ tc.pc = "run" /\ tc.t = tc.n_trans /\ tc.i = tc.n_test
    /\ tc' = Finished(tc)
    /\ UNCHANGED <<args, acc, ret, steps, fc, call, host>>

NextLyap ==
    \/ TransientStep
    \/ MeasureStep
    \/ Finish

SpecLyap == InitLyap /\ [][NextLyap]_vars

\* v . v = 1
IsUnit(v) == dot_product(v, v) = Num(1)

\* C9 (orthonormality): after every tangent-evolution step, of the transient
\* and of the measurement phase, whose Jacobian is not degenerate, the basis
\* satisfies |v1| = 1, |v2| = 1 and v1 . v2 = 0.
Orthonormality ==
    (/\ tc.pc \in {"run", "done"}
     /\ tc.t + tc.i >= 1
     /\ determinant(Jacobian(tc, tc.x, tc.y)) # Num(0))
    => /\ IsUnit(tc.v1)
       /\ IsUnit(tc.v2)
       /\ dot_product(tc.v1, tc.v2) = Num(0)

\* |x| > thresh or |y| > thresh
Beyond(p, thresh) == FGt(FAbs(p[1]), thresh) \/ FGt(FAbs(p[2]), thresh)

\* The k-th iterate of the tested map from the seed.
Iterate(t, k) == iterate_map(t.args1, t.args2, k, t.is_cubic)[k]

\* C10 (divergence detection), as stated: a test of a coefficient pair whose
\* first iterate from the seed lies beyond the threshold returns
\* (-1, -1, -1), for every transientSteps and measureSteps.
DivergenceDetection ==
    (tc.pc = "done" /\ Beyond(Iterate(tc, 1), tc.thresh)) => tc.ret = Sentinel

\* C10, corrected: a test with measureSteps >= 1 returns (-1, -1, -1) when
\* the first measured iterate, iterate transientSteps + 1 from the seed,
\* lies beyond the threshold.
MeasuredDivergenceDetection ==
    (/\ tc.pc = "done"
     /\ tc.n_test >= 1
     /\ Beyond(Iterate(tc, tc.n_trans + 1), tc.thresh))
    => tc.ret = Sentinel

\* A test with transient steps returned (-1, -1, -1) at its first measured
\* iterate, which lies beyond the threshold on the negative side.
MeasuredDivergenceSeen ==
    /\ tc.pc = "done"
    /\ tc.n_trans >= 1 /\ tc.n_test >= 1
    /\ FLt(Iterate(tc, tc.n_trans + 1)[1], FNeg(tc.thresh))
    /\ tc.i = 0
    /\ tc.ret = Sentinel

(***************************************************************************)
(* fractal_dimension applied to pairs of exponents: the tenths from        *)
(* -MaxTenths/10 to MaxTenths/10, the infinities and NaN.                  *)
(***************************************************************************)
MaxTenths == 5

Exponents == {Rat(n, 10) : n \in (-MaxTenths)..MaxTenths} \cup {PInf, NInf, NaN}

InitDim ==
    /\ InitWith(IdentityMap, <<Num(1), Num(1)>>, <<1, 1>>)
    /\ tc = NoTest /\ fc = NoFind /\ call = NoCall /\ host = NoHost

FractalDimension ==
    \E max_le \in Exponents, min_le \in Exponents :
        /\ call' = [op |-> "fractal_dimension", max_le |-> max_le, min_le |-> min_le,
                    out |-> fractal_dimension(max_le, min_le)]
        /\ UNCHANGED <<args, acc, ret, steps, tc, fc, host>>

NextDim == FractalDimension

SpecDim == InitDim /\ [][NextDim]_vars

\* C12 (Kaplan-Yorke dimension): fractal_dimension(maxExp, minExp) is 0 when
\* maxExp < 0; otherwise, with s = maxExp + minExp, it is 2 + s/|minExp| when
\* s > 0 and 1 + maxExp/|minExp| when s <= 0.
KaplanYorke ==
    call.op = "fractal_dimension" =>
        LET s == FAdd(call.max_le, call.min_le)
        IN  /\ FLt(call.max_le, Num(0)) => call.out = Num(0)
            /\ (~FLt(call.max_le, Num(0)) /\ FGt(s, Num(0)))
                  => call.out = FAdd(Num(2), FDiv(s, FAbs(call.min_le)))
            /\ (~FLt(call.max_le, Num(0)) /\ FLe(s, Num(0)))
                  => call.out = FAdd(Num(1), FDiv(call.max_le, FAbs(call.min_le)))

\* maxExp = 0.5, minExp = -0.3 gave 2 + 0.2/0.3 = 8/3.
KaplanYorkeSeen ==
    /\ call.op = "fractal_dimension"
    /\ call.max_le = Rat(1, 2) /\ call.min_le = Rat(-3, 10)
    /\ call.out = Rat(8, 3)

(***************************************************************************)
(* The search for a chaotic map: find_random_chaos_extended (and           *)
(* find_random_chaos, which runs the same loop and returns the points      *)
(* only).  A call is at the head of its loop ("sample"), inside test_chaos *)
(* ("test") or has returned ("done").  The sampler draws each coefficient  *)
(* in [-1.2, 1.2); the pairs it draws in the model have orbits of period   *)
(* one or two through the seed, so that the 1000 transient steps are exact.*)
(***************************************************************************)
DEFAULT_BATCH_SIZE == 1000000
N_TRANS == 1000
THRESH == 1000000
LE_THRESH == Rat(1, 10000)

MaxTrials == 2

\* `let param_count = if is_cubic { 10 } else { 6 };`
ParamCount(is_cubic) == IF is_cubic THEN 10 ELSE 6

\* 2.4 * rng.gen::<f64>() - 1.2 lies in [-1.2, 1.2).
InSampleRange(v) == FGe(v, Rat(-6, 5)) /\ FLt(v, Rat(6, 5))

\* x' = x(1.04 - 0.8 y) + 0.04 y - 0.002, y' = -1.15 - y: x stays at 0.05, y
\* alternates between 0.05 and -1.2, dx'/dx alternates between 1 and 2.
PulseMap == [x_params |-> <<Rat(-1, 500), Rat(26, 25), Num(0), Rat(-4, 5),
                            Rat(1, 25), Num(0)>>,
             y_params |-> <<Rat(-23, 20), Num(0), Num(0), Num(0), Num(-1), Num(0)>>,
             is_cubic |-> FALSE]
\* x' = 1 - x, y' = -1.15 - y: both coordinates alternate, no stretching.
SwingMap == [x_params |-> Coeffs(<<1, -1, 0, 0, 0, 0>>),
             y_params |-> <<Rat(-23, 20), Num(0), Num(0), Num(0), Num(-1), Num(0)>>,
             is_cubic |-> FALSE]
\* A cubic in x with the 2-cycle {0.05, -1.2} and slopes -1, -2 on it.
StretchCubic == <<Rat(-14399, 12500), Rat(-578, 625), Rat(-88, 125), Rat(-16, 25),
                  Num(0), Num(0), Num(0), Num(0), Num(0), Num(0)>>
\* Cubics in y with the 2-cycle {0.05, -1.2}: slopes -1/2, -1/2 and -1, 1/2.
ShrinkCubic == <<Rat(-14651, 12500), Num(0), Num(0), Num(0), Num(0), Num(0), Num(0),
                 Rat(-769, 1250), Rat(138, 125), Rat(16, 25)>>
HalfShrinkCubic == <<Rat(-14339, 12500), Num(0), Num(0), Num(0), Num(0), Num(0),
                     Num(0), Rat(-1391, 1250), Rat(132, 125), Rat(24, 25)>>
\* Exponents 1/2 and -1: dimension 1.5.
FoldMap == [x_params |-> StretchCubic, y_params |-> ShrinkCubic, is_cubic |-> TRUE]
\* Exponents 1/2 and -1/2: dimension 2.
SheetMap == [x_params |-> StretchCubic, y_params |-> HalfShrinkCubic,
             is_cubic |-> TRUE]
\* x' = x, y' = y as a cubic map.
RestMap == [x_params |-> Coeffs(<<0, 1, 0, 0, 0, 0, 0, 0, 0, 0>>),
            y_params |-> Coeffs(<<0, 0, 0, 0, 0, 0, 0, 1, 0, 0>>), is_cubic |-> TRUE]

FindMaps == {PulseMap, SwingMap, IdentityMap, FoldMap, SheetMap, RestMap}
FindTests == {0, 2, 16}
FindPlots == {2}

\* get_random_args(n) twice: the pairs of n coefficients each the sampler
\* can draw.
get_random_args(n) ==
    {m \in FindMaps :
        /\ Len(m.x_params) = n /\ Len(m.y_params) = n
        /\ \A i \in 1..n : InSampleRange(m.x_params[i]) /\ InSampleRange(m.y_params[i])}

\* `result_points.extend_from_slice(&point)` for every point.
RECURSIVE Flatten(_)
Flatten(points) ==
    IF points = <<>> THEN <<>>
    ELSE <<Head(points)[1], Head(points)[2]>> \o Flatten(Tail(points))

\* `if max_le == -1.0 { continue; }`
Failed(max_le) == max_le = Num(-1)

\* `let fd = ...; let exclude = if is_cubic { exclude_cubic } else { exclude_quadratic }`
Excluded(r, is_cubic) ==
    IF is_cubic
    THEN exclude_cubic(r[1], r[2], r[3], fractal_dimension(r[1], r[2]), LE_THRESH)
    ELSE exclude_quadratic(r[1], r[2], r[3], fractal_dimension(r[1], r[2]), LE_THRESH)

\* The ChaoticMapResult returned for the trial t.
ChaoticMapResult(t, n_plot) ==
    [points |-> Flatten(iterate_map(t.args1, t.args2,
                                    Min(DEFAULT_BATCH_SIZE, n_plot), t.is_cubic)),
     x_params |-> t.args1, y_params |-> t.args2,
     max_lyapunov |-> t.ret[1], min_lyapunov |-> t.ret[2],
     fractal_dimension |-> fractal_dimension(t.ret[1], t.ret[2]),
     is_cubic |-> t.is_cubic]

\* A faulty loop body: a trial that did not fail is returned, excluded or not.
LoopBodyWithoutExclusion(f, t) ==
    IF Failed(t.ret[1]) THEN [f EXCEPT !.pc = "sample"]
    ELSE [f EXCEPT !.pc = "done", !.result = ChaoticMapResult(t, f.n_plot)]

\* The loop body after test_chaos has returned: the call f after it.
LoopBody(f, t) ==
    IF Failed(t.ret[1]) THEN [f EXCEPT !.pc = "sample"]
    ELSE IF Excluded(t.ret, f.is_cubic) THEN [f EXCEPT !.pc = "sample"]
    ELSE [f EXCEPT !.pc = "done", !.result = ChaoticMapResult(t, f.n_plot)]

InitFind ==
    /\ InitWith(IdentityMap, <<Num(1), Num(1)>>, <<1, 1>>)
    /\ tc = NoTest /\ call = NoCall /\ host = NoHost
    /\ \E n_plot \in FindPlots, n_test \in FindTests, is_cubic \in BOOLEAN :
          fc = [pc |-> "sample", n_plot |-> n_plot, n_test |-> n_test,
                is_cubic |-> is_cubic, trials |-> 0, result |-> <<>>]

\* The head of the loop: two coefficient vectors are drawn and test_chaos is
\* entered.
Sample ==
    /\ fc.pc = "sample" /\ fc.trials < MaxTrials
    /\ \E m \in get_random_args(ParamCount(fc.is_cubic)) :
          tc' = Entry(m.x_params, m.y_params, N_TRANS, fc.n_test, Num(THRESH),
                      fc.is_cubic)
    /\ fc' = [fc EXCEPT !.pc = "test", !.trials = @ + 1]
    /\ UNCHANGED <<args, acc, ret, steps, call, host>>

\* test_chaos has returned: the trial is dropped or returned.
Judge ==
    /\ fc.pc = "test" /\ tc.pc = "done"
    /\ fc' = LoopBody(fc, tc)
    /\ tc' = NoTest
    /\ UNCHANGED <<args, acc, ret, steps, call, host>>

NextFind ==
    \/ Sample
    \/ TransientStep
    \/ MeasureStep
    \/ Finish
    \/ Judge

SpecFind == InitFind /\ [][NextFind]_vars

\* C11 (acceptance): every returned result has maxExponent > 1e-4 and a
\* dimension at least 0.11 away from 1 and, for a cubic map, from 2, for every
\* measureSteps value.
Acceptance ==
    fc.pc = "done" =>
        /\ FGt(fc.result.max_lyapunov, LE_THRESH)
        /\ FGe(FAbs(FSub(fc.result.fractal_dimension, Num(1))), Rat(11, 100))
        /\ fc.result.is_cubic =>
              FGe(FAbs(FSub(fc.result.fractal_dimension, Num(2))), Rat(11, 100))

\* A step of the call is possible: a trial is in progress, or the call is at
\* the head of its loop.
Running == fc.pc = "test" \/ (fc.pc = "sample" /\ fc.trials < MaxTrials)

\* The loop runs on: a call that can take a step eventually takes one.  This
\* is WF_vars(NextFind), written with Running for ENABLED <<NextFind>>_vars.
SpecFindFair == SpecFind /\ (([]<>~Running) \/ ([]<><<NextFind>>_vars))

\* The trial in progress has ended and is neither failed nor excluded.
AcceptedTrial ==
    /\ fc.pc = "test" /\ tc.pc = "done"
    /\ ~Failed(tc.ret[1]) /\ ~Excluded(tc.ret, fc.is_cubic)

\* C13 (search loop): after a failed or excluded trial the call does not
\* return but goes back to sampling, and the next trial starts from freshly
\* drawn coefficient vectors of 6 (quadratic) or 10 (cubic) values each; an
\* accepted trial is returned at once and nothing runs after the return;
\* every trial ends, and an accepted trial leads to the return.
SearchLoop ==
    /\ [][(fc.pc = "test" /\ tc.pc = "done") =>
             IF AcceptedTrial
             THEN fc'.pc = "done" /\ fc'.result.x_params = tc.args1
                  /\ fc'.result.y_params = tc.args2
             ELSE fc'.pc = "sample" /\ fc'.result = <<>>]_vars
    /\ [][(fc.pc = "sample" /\ fc'.pc # "sample") =>
             /\ fc'.pc = "test"
             /\ \E m \in get_random_args(ParamCount(fc.is_cubic)) :
                   tc' = Entry(m.x_params, m.y_params, N_TRANS, fc.n_test,
                               Num(THRESH), fc.is_cubic)
             /\ Len(tc'.args1) = ParamCount(fc.is_cubic)
             /\ Len(tc'.args2) = ParamCount(fc.is_cubic)]_vars
    /\ [][fc.pc = "done" => UNCHANGED vars]_vars
    /\ (fc.pc = "test") ~> (fc.pc # "test")
    /\ AcceptedTrial ~> (fc.pc = "done")

\* A call returned its second trial, the first having been dropped.
SearchLoopSeen ==
    /\ fc.pc = "done" /\ fc.trials = 2 /\ fc.n_test > 0
    /\ Len(fc.result.x_params) = ParamCount(fc.is_cubic)
    /\ Len(fc.result.y_params) = ParamCount(fc.is_cubic)

(***************************************************************************)
(* Machine words.  usize and u32 are 32 bits wide on the wasm32 target: a  *)
(* word is kept as two 16-bit limbs, and every operation reports whether   *)
(* its exact result left the word.                                         *)
(***************************************************************************)
Limb == 256 * 256
Word(hi, lo) == [hi |-> hi, lo |-> lo]
ToWord(i) == Word(i \div Limb, i % Limb)
WordMax == Word(Limb - 1, Limb - 1)
WLt(a, b) == a.hi < b.hi \/ (a.hi = b.hi /\ a.lo < b.lo)
WMin(a, b) == IF WLt(b, a) THEN b ELSE a
\* The value of a word below 2^31.
Small(a) == a.hi * Limb + a.lo
IsSmall(a) == a.hi < Limb \div 2

\* a + b, wrapped, and whether it overflowed.
wrapping_add(a, b) ==
    LET lo == a.lo + b.lo
        hi == a.hi + b.hi + (lo \div Limb)
    IN  [w |-> Word(hi % Limb, lo % Limb), overflow |-> hi >= Limb]

\* a - b, wrapped, and whether it overflowed.
wrapping_sub(a, b) ==
    LET lo == a.lo - b.lo
        borrow == IF lo < 0 THEN 1 ELSE 0
        hi == a.hi - b.hi - borrow
    IN  [w |-> Word((hi + Limb) % Limb, (lo + Limb) % Limb), overflow |-> hi < 0]

\* a * k for a factor k below 2^15, wrapped, and whether it overflowed.
wrapping_mul(a, k) ==
    LET lo == a.lo * k
        hi == a.hi * k + (lo \div Limb)
    IN  [w |-> Word(hi % Limb, lo % Limb), overflow |-> hi >= Limb]

\* How a call across the boundary ends.
Returned(v) == [panic |-> FALSE, val |-> v]
Panicked(msg) == [panic |-> TRUE, val |-> msg]

(***************************************************************************)
(* get_rgba_rows on machine-word arguments.  With overflow checks (debug   *)
(* profile) an overflowing operation panics; without them (release         *)
(* profile) it wraps.  vec![0u8; n] panics for n above isize::MAX.         *)
(***************************************************************************)
get_rgba_rows_usize(a, start_row, rows, overflow_checks) ==
    LET h == a.height
        w == a.width
    IN  IF w = 0 \/ h = 0 \/ ~WLt(start_row, ToWord(h)) \/ rows = ToWord(0)
        THEN Returned(<<>>)
        ELSE
        LET sum == wrapping_add(start_row, rows)
            end_row == WMin(sum.w, ToWord(h))
            out_rows == wrapping_sub(end_row, start_row)
            by_w == wrapping_mul(out_rows.w, w)
            bytes == wrapping_mul(by_w.w, 4)
        IN  IF overflow_checks /\ sum.overflow
            THEN Panicked("attempt to add with overflow")
            ELSE IF overflow_checks /\ out_rows.overflow
            THEN Panicked("attempt to subtract with overflow")
            ELSE IF overflow_checks /\ (by_w.overflow \/ bytes.overflow)
            THEN Panicked("attempt to multiply with overflow")
            ELSE IF ~IsSmall(bytes.w)
            THEN Panicked("capacity overflow")
            ELSE IF sum.overflow \/ out_rows.overflow \/ by_w.overflow \/ bytes.overflow
            THEN \* the rows start_row..end_row are none: the buffer stays zero
                 Returned(Repeat(ZeroBytes, Small(bytes.w) \div 4))
            ELSE Returned(get_rgba_rows(a, Small(start_row), Small(out_rows.w)))

\* The arguments a caller can pass: small ones and ones near the word's end.
RowWords == {ToWord(i) : i \in 0..(MaxRow + 2)} \cup {WordMax, Word(Limb \div 2, 0)}

InitRows ==
    /\ \E dm \in Dims : InitWith(TurnMap, <<Num(1), Num(1)>>, dm)
    /\ tc = NoTest /\ fc = NoFind /\ call = NoCall /\ host = NoHost

RenderRowsUsize ==
    \E start_row \in RowWords, rows \in RowWords, overflow_checks \in BOOLEAN :
        /\ ret' = [b \in Backings |->
                      [op |-> "get_rgba_rows_usize", n |-> 0,
                       start_row |-> start_row, rows |-> rows,
                       val |-> get_rgba_rows_usize(acc[b], start_row, rows,
                                                   overflow_checks)]]
        /\ UNCHANGED <<args, acc, steps, tc, fc, call, host>>

NextRows ==
    \/ StepBatch
    \/ FillMapping
    \/ RenderRowsUsize

SpecRows == InitRows /\ [][NextRows]_vars

\* The number of rows [start_row, start_row + rows) that lie below h, the sum
\* taken in the integers.
RowsBelow(h, start_row, rows) ==
    IF WLt(start_row, ToWord(h)) /\ rows # ToWord(0)
    THEN IF WLt(rows, ToWord(h - Small(start_row)))
         THEN Small(rows) ELSE h - Small(start_row)
    ELSE 0

\* C15 (row range): for every machine-word start_row and rows, get_rgba_rows
\* returns, without failing on the addition, the pixels of exactly
\* min(start_row + rows, height) - start_row rows when start_row < height and
\* rows > 0, and an empty buffer otherwise.
RowRange ==
    \A b \in Backings :
        ret[b].op = "get_rgba_rows_usize" =>
            /\ ~ret[b].val.panic
            /\ Len(ret[b].val.val)
                 = RowsBelow(acc[b].height, ret[b].start_row, ret[b].rows)
                     * acc[b].width

(***************************************************************************)
(* The boundary operations that take coefficient slices.                   *)
(***************************************************************************)
\* x' = y, y' = 4 - x, as a cubic map
TurnCubic == [x_params |-> Coeffs(<<0, 0, 0, 0, 0, 0, 0, 1, 0, 0>>),
              y_params |-> Coeffs(<<4, -1, 0, 0, 0, 0, 0, 0, 0, 0>>),
              is_cubic |-> TRUE]

\* map_quadratic reads args[0..=5] and map_cubic args[0..=9]: on a shorter
\* slice the index expression panics.
TooShort(x_params, y_params, is_cubic) ==
    Len(x_params) < ParamCount(is_cubic) \/ Len(y_params) < ParamCount(is_cubic)

IndexPanic == Panicked("index out of bounds")

MapOf(x_params, y_params, is_cubic) ==
    [args1 |-> x_params, args2 |-> y_params, is_cubic |-> is_cubic]

\* The one element of a singleton set.
Only(S) == CHOOSE v \in S : TRUE

\* The point reached from (x, y) by n applications of the map.
RECURSIVE Advance(_, _, _, _)
Advance(t, x, y, n) ==
    IF n = 0 THEN <<x, y>>
    ELSE Only({Advance(t, p[1], p[2], n - 1) :
                  p \in {<<MapX(t, x, y), MapY(t, x, y)>>}})

\* usize::clamp and usize::saturating_sub
Clamp(n, lo, hi) == IF n < lo THEN lo ELSE IF n > hi THEN hi ELSE n
SaturatingSub(a, b) == IF a > b THEN a - b ELSE 0

\* The tracking loop of estimate_bounds_for_map: bnd = <<min_x, max_x, min_y,
\* max_y>> widened by every finite point.
RECURSIVE TrackBounds(_, _, _, _, _)
TrackBounds(t, x, y, bnd, n) ==
    IF n = 0 THEN bnd
    ELSE LET nx == MapX(t, x, y)
             ny == MapY(t, x, y)
             seen == IsFinite(nx) /\ IsFinite(ny)
         IN  TrackBounds(t, nx, ny,
                 IF seen
                 THEN <<IF FLt(nx, bnd[1]) THEN nx ELSE bnd[1],
                        IF FGt(nx, bnd[2]) THEN nx ELSE bnd[2],
                        IF FLt(ny, bnd[3]) THEN ny ELSE bnd[3],
                        IF FGt(ny, bnd[4]) THEN ny ELSE bnd[4]>>
                 ELSE bnd,
                 n - 1)

\* estimate_bounds_for_map: the only operation that tests the lengths.
estimate_bounds_for_map(x_params, y_params, n_points, is_cubic) ==
    IF TooShort(x_params, y_params, is_cubic)
    THEN Returned(<<Num(0), Num(1), Num(0), Num(1)>>)
    ELSE
    LET t == MapOf(x_params, y_params, is_cubic)
        warmup == LET c == Clamp(n_points, 500, 10000)
                  IN  IF c < n_points THEN c ELSE n_points
        at == Advance(t, Seed, Seed, warmup)
        track_count == LET r == SaturatingSub(n_points, warmup)
                       IN  IF r > 1 THEN r ELSE 1
        bnd == TrackBounds(t, at[1], at[2], <<at[1], at[1], at[2], at[2]>>,
                           track_count)
        pad_x == FMul(FSub(bnd[2], bnd[1]), Rat(1, 10))
        pad_y == FMul(FSub(bnd[4], bnd[3]), Rat(1, 10))
    IN  Returned(<<FSub(bnd[1], pad_x), FAdd(bnd[2], pad_x),
                   FSub(bnd[3], pad_y), FAdd(bnd[4], pad_y)>>)

\* ChaoticAccumulator::new followed by step_batch: new stores the slices
\* as they are, and the first iteration indexes them.
new_then_step_batch(p, n_points) ==
    IF n_points > 0 /\ TooShort(p.x_params, p.y_params, p.is_cubic)
    THEN IndexPanic
    ELSE Returned(step_batch(New(p), n_points).ret)

\* generate_chaotic_map_points: the points of iterate_map, flattened.
generate_chaotic_map_points(x_params, y_params, n_points, is_cubic) ==
    IF n_points > 0 /\ TooShort(x_params, y_params, is_cubic)
    THEN IndexPanic
    ELSE Returned(Flatten(iterate_map(x_params, y_params, n_points, is_cubic)))

\* The loop of generate_trajectory_points and the two pushes after it: the
\* points, then the final state.
RECURSIVE TrajectoryLoop(_, _, _, _, _)
TrajectoryLoop(t, x, y, result, n) ==
    IF n = 0 THEN result \o <<x, y>>
    ELSE Only({TrajectoryLoop(t, p[1], p[2], result \o p, n - 1) :
                  p \in {<<MapX(t, x, y), MapY(t, x, y)>>}})

\* A faulty generate_trajectory_points: the state appended at the end is the
\* one the call started from.
TrajectoryKeepsStart(t, start_x, start_y, n_points) ==
    LET v == TrajectoryLoop(t, start_x, start_y, <<>>, n_points)
    IN  SubSeq(v, 1, Len(v) - 2) \o <<start_x, start_y>>

TrajectoryFrom(t, start_x, start_y, n_points) ==
    TrajectoryLoop(t, start_x, start_y, <<>>, n_points)

generate_trajectory_points(x_params, y_params, n_points, is_cubic, start_x, start_y) ==
    IF n_points > 0 /\ TooShort(x_params, y_params, is_cubic)
    THEN IndexPanic
    ELSE Returned(TrajectoryFrom(MapOf(x_params, y_params, is_cubic),
                                 start_x, start_y, n_points))

\* The binning loop of generate_chaotic_map_batch_to_density.
RECURSIVE DensityLoop(_, _, _, _, _, _)
DensityLoop(t, x, y, g, grid, n) ==
    IF n = 0 THEN grid
    ELSE LET nx == MapX(t, x, y)
             ny == MapY(t, x, y)
             pixel_x == Rescale(nx, g.min_x, g.max_x, g.width)
             pixel_y == Rescale(ny, g.min_y, g.max_y, g.height)
         IN  DensityLoop(t, nx, ny, g,
                 IF pixel_x < g.width /\ pixel_y < g.height
                 THEN [grid EXCEPT ![pixel_y * g.width + pixel_x + 1] = @ + 1]
                 ELSE grid,
                 n - 1)

\* generate_chaotic_map_batch_to_density on the canvas g.
generate_chaotic_map_batch_to_density(x_params, y_params, n_points, is_cubic, g, start_iteration) ==
    IF (start_iteration > 0 \/ n_points > 0)
           /\ TooShort(x_params, y_params, is_cubic)
    THEN IndexPanic
    ELSE LET t == MapOf(x_params, y_params, is_cubic)
             at == Advance(t, Seed, Seed, start_iteration)
         IN  Returned(DensityLoop(t, at[1], at[2], g,
                                  Repeat(0, g.width * g.height), n_points))

\* The slices a caller can pass: the coefficients of a map cut to any of a
\* few lengths.
MaxPoints == 2
SliceLengths == {0, 5, 6, 10}
Prefix(q, n) == SubSeq(q, 1, IF n < Len(q) THEN n ELSE Len(q))
SlicePairs ==
    {[x_params |-> Prefix(m.x_params, nx), y_params |-> Prefix(m.y_params, ny)] :
        m \in {TurnMap, TurnCubic}, nx \in SliceLengths, ny \in SliceLengths}
Canvas ==
    [width |-> 2, height |-> 2,
     min_x |-> Num(0), max_x |-> Num(4), min_y |-> Num(0), max_y |-> Num(4)]

InitBoundary ==
    /\ InitWith(IdentityMap, <<Num(1), Num(1)>>, <<1, 1>>)
    /\ tc = NoTest /\ fc = NoFind /\ call = NoCall /\ host = NoHost

Called(op, x_params, y_params, n_points, is_cubic, out) ==
    /\ call' = [op |-> op, x_params |-> x_params, y_params |-> y_params,
                n_points |-> n_points, is_cubic |-> is_cubic, out |-> out]
    /\ UNCHANGED <<args, acc, ret, steps, tc, fc, host>>

EstimateBounds ==
    \E sl \in SlicePairs, n_points \in 0..MaxPoints, is_cubic \in BOOLEAN :
        Called("estimate_bounds_for_map", sl.x_params, sl.y_params, n_points, is_cubic,
               estimate_bounds_for_map(sl.x_params, sl.y_params, n_points, is_cubic))

NewThenStepBatch ==
    \E sl \in SlicePairs, n_points \in 0..MaxPoints, is_cubic \in BOOLEAN :
        Called("step_batch", sl.x_params, sl.y_params, n_points, is_cubic,
               new_then_step_batch(
                   [x_params |-> sl.x_params, y_params |-> sl.y_params,
                    is_cubic |-> is_cubic, width |-> Canvas.width,
                    height |-> Canvas.height,
                    min_x |-> Canvas.min_x, max_x |-> Canvas.max_x,
                    min_y |-> Canvas.min_y, max_y |-> Canvas.max_y,
                    start_x |-> Num(1), start_y |-> Num(1)],
                   n_points))

GenerateChaoticMapPoints ==
    \E sl \in SlicePairs, n_points \in 0..MaxPoints, is_cubic \in BOOLEAN :
        Called("generate_chaotic_map_points", sl.x_params, sl.y_params, n_points,
               is_cubic,
               generate_chaotic_map_points(sl.x_params, sl.y_params, n_points, is_cubic))

GenerateTrajectoryPoints ==
    \E sl \in SlicePairs, n_points \in 0..MaxPoints, is_cubic \in BOOLEAN :
        Called("generate_trajectory_points", sl.x_params, sl.y_params, n_points,
               is_cubic,
               generate_trajectory_points(sl.x_params, sl.y_params, n_points, is_cubic,
                                          Num(1), Num(1)))

GenerateBatchToDensity ==
    \E sl \in SlicePairs, n_points \in 0..MaxPoints, is_cubic \in BOOLEAN :
        Called("generate_chaotic_map_batch_to_density", sl.x_params, sl.y_params,
               n_points, is_cubic,
               generate_chaotic_map_batch_to_density(sl.x_params, sl.y_params, n_points,
                                                     is_cubic, Canvas, 0))

NextBoundary ==
    \/ EstimateBounds
    \/ NewThenStepBatch
    \/ GenerateChaoticMapPoints
    \/ GenerateTrajectoryPoints
    \/ GenerateBatchToDensity

SpecBoundary == InitBoundary /\ [][NextBoundary]_vars

\* C16 (insufficient coefficients): no boundary operation given fewer than 6
\* coefficients for a quadratic map, or fewer than 10 for a cubic one, panics
\* or indexes out of range.
InsufficientCoefficients ==
    (call.op # "none" /\ TooShort(call.x_params, call.y_params, call.is_cubic))
        => ~call.out.panic

(***************************************************************************)
(* Accumulators on a canvas without pixels.                                *)
(***************************************************************************)
ZeroDims == {<<0, 2>>, <<2, 0>>, <<0, 0>>}

InitZero ==
    /\ \E m \in Maps, st \in Starts, dm \in ZeroDims : InitWith(m, st, dm)
    /\ tc = NoTest /\ fc = NoFind /\ call = NoCall /\ host = NoHost

SpecZero == InitZero /\ [][Next]_vars

\* C17 (zero-size canvas): on an accumulator created with width = 0 or
\* height = 0 every sequence of step_batch, fill_rgba_log_soft, get_rgba_rows
\* and density calls leaves every count at 0 and non_zero at 0, density
\* returns an empty array and get_rgba_rows an empty buffer.
ZeroSizeCanvas ==
    \A b \in Backings :
        /\ acc[b].non_zero = 0
        /\ MaxDensity(acc[b]) = 0
        /\ density(acc[b]) = <<>>
        /\ \A start_row \in 0..(MaxRow + 1), rows \in 0..(MaxRow + 1) :
               get_rgba_rows(acc[b], start_row, rows) = <<>>
        /\ ret[b].op \in {"get_rgba_rows", "density"} => ret[b].val = <<>>
        /\ ret[b].op \in StepOps => ret[b].val[4] = Num(0)

\* All the steps were taken on a canvas of width 0 and the orbit is inside
\* the bounds, a mapping was asked for, and rows were rendered.
ZeroSizeCanvasSeen ==
    \A b \in Backings :
        /\ acc[b].width = 0 /\ acc[b].height > 0
        /\ steps = MaxSteps
        /\ InBounds(acc[b], acc[b].x, acc[b].y)
        /\ ret[b].op = "get_rgba_rows"

(***************************************************************************)
(* merge_density_grids.  A count is a u32 word; `a + b` panics on overflow *)
(* with overflow checks and wraps without them.                            *)
(***************************************************************************)
RECURSIVE AnyOverflow(_, _)
AnyOverflow(grid1, grid2) ==
    IF grid1 = <<>> THEN FALSE
    ELSE wrapping_add(Head(grid1), Head(grid2)).overflow
             \/ AnyOverflow(Tail(grid1), Tail(grid2))

merge_density_grids(grid1, grid2, overflow_checks) ==
    IF Len(grid1) # Len(grid2) THEN Returned(grid1)
    ELSE IF overflow_checks /\ AnyOverflow(grid1, grid2)
    THEN Panicked("attempt to add with overflow")
    ELSE Returned([i \in 1..Len(grid1) |-> wrapping_add(grid1[i], grid2[i]).w])

MaxCells == 2
Counts == {ToWord(0), ToWord(1), Word(Limb \div 2, 0), WordMax}
Grids == UNION {[1..n -> Counts] : n \in 0..MaxCells}

MergeDensityGrids ==
    \E grid1 \in Grids, grid2 \in Grids, overflow_checks \in BOOLEAN :
        /\ call' = [op |-> "merge_density_grids", grid1 |-> grid1, grid2 |-> grid2,
                    out |-> merge_density_grids(grid1, grid2, overflow_checks)]
        /\ UNCHANGED <<args, acc, ret, steps, tc, fc, host>>

NextMerge == MergeDensityGrids

SpecMerge == InitBoundary /\ [][NextMerge]_vars

\* C18 (grid merge): merge_density_grids returns grid1 unchanged when the
\* grids differ in length and otherwise, without crashing, the elementwise
\* sum grid1[i] + grid2[i] for every i, also when a sum exceeds 32 bits.
GridMerge ==
    call.op = "merge_density_grids" =>
        /\ ~call.out.panic
        /\ IF Len(call.grid1) # Len(call.grid2)
           THEN call.out.val = call.grid1
           ELSE /\ Len(call.out.val) = Len(call.grid1)
                /\ \A i \in 1..Len(call.grid1) :
                       /\ ~wrapping_add(call.grid1[i], call.grid2[i]).overflow
                       /\ call.out.val[i] = wrapping_add(call.grid1[i], call.grid2[i]).w

(***************************************************************************)
(* A trajectory generated by several generate_trajectory_points calls,     *)
(* each started from the final state the call before returned.  call keeps *)
(* the arguments of the last call (from, requested), what it returned      *)
(* (out) and what the same call returned when made again (again), the seed *)
(* of the first call, the points of all the calls, and what one call from  *)
(* the seed for all these points returns (whole).                          *)
(***************************************************************************)
MaxTotal == 4
MaxCalls == 3

\* The layout of the returned vector: the points, then the final state.
PointsOf(v) == SubSeq(v, 1, Len(v) - 2)
FinalState(v) == <<v[Len(v) - 1], v[Len(v)]>>

Generate(m, n_points, from) ==
    generate_trajectory_points(m.x_params, m.y_params, n_points, m.is_cubic,
                               from[1], from[2])

StartTrajectory ==
    \E m \in Maps, st \in Starts, n_points \in 0..MaxPoints :
        /\ call' = [op |-> "generate_trajectory_points", map |-> m,
                    seed |-> st, from |-> st, requested |-> n_points,
                    out |-> Generate(m, n_points, st),
                    again |-> Generate(m, n_points, st),
                    calls |-> 1, total |-> n_points,
                    points |-> PointsOf(Generate(m, n_points, st).val),
                    whole |-> Generate(m, n_points, st)]
        /\ UNCHANGED <<args, acc, ret, steps, tc, fc, host>>

ResumeTrajectory ==
    /\ call.op = "generate_trajectory_points"
    /\ ~call.out.panic
    /\ call.calls < MaxCalls
    /\ \E n_points \in 0..MaxPoints, from \in {FinalState(call.out.val)} :
        /\ call.total + n_points <= MaxTotal
        /\ \E out \in {Generate(call.map, n_points, from)} :
            call' = [call EXCEPT !.from = from, !.requested = n_points,
                                 !.out = out,
                                 !.again = Generate(call.map, n_points, from),
                                 !.calls = @ + 1,
                                 !.total = @ + n_points,
                                 !.points = @ \o PointsOf(out.val),
                                 !.whole = Generate(call.map, call.total + n_points,
                                                    call.seed)]
        /\ UNCHANGED <<args, acc, ret, steps, tc, fc, host>>

NextTrajectory == StartTrajectory \/ ResumeTrajectory

SpecTrajectory == InitBoundary /\ [][NextTrajectory]_vars

MaxInvocations == 2
Invocations == 1..MaxInvocations
GeneratorCommands ==
    {"generate_chaos_game", "generate_ifs_fractal", "generate_mandelbrot",
     "generate_julia", "points_to_rgba"}
Commands == GeneratorCommands \cup {"get_system_info"}

Free == 0
NoResult == [ok |-> FALSE, err |-> ""]
OkResult == [ok |-> TRUE, err |-> ""]
\* `.map_err(|e| e.to_string())?` on a PoisonError
PoisonMessage == "poisoned lock: another task failed inside"
ErrResult == [ok |-> FALSE, err |-> PoisonMessage]

\* A faulty mutex: lock() succeeds whoever holds it.
CanLockAlways(m) == TRUE

\* Mutex::lock returns once no task holds the mutex.
CanLock(m) == m.holder = Free

InitHost ==
    /\ InitWith(IdentityMap, <<Num(1), Num(1)>>, <<1, 1>>)
    /\ tc = NoTest /\ fc = NoFind /\ call = NoCall
    /\ host = [pc |-> [i \in Invocations |-> "idle"],
               cmd |-> [i \in Invocations |-> "none"],
               result |-> [i \in Invocations |-> NoResult],
               mutex |-> [holder |-> Free, poisoned |-> FALSE]]

\* The front end invokes a command.  get_system_info does not use the
\* generator and returns at once; the others go on to lock the mutex.
Invoke(i) ==
    /\ host.pc[i] = "idle"
    /\ \E cmd \in Commands :
        host' = IF cmd \in GeneratorCommands
                THEN [host EXCEPT !.pc[i] = "lock", !.cmd[i] = cmd]
                ELSE [host EXCEPT !.pc[i] = "returned", !.cmd[i] = cmd,
                                  !.result[i] = OkResult]
    /\ UNCHANGED <<args, acc, ret, steps, tc, fc, call>>

\* `state.generator.lock().map_err(|e| e.to_string())?`: the task waits for
\* the mutex; on a poisoned mutex the guard inside the error is dropped and
\* the command returns Err(message), otherwise the task holds the guard and
\* enters the generator method.
Lock(i) ==
    /\ host.pc[i] = "lock"
    /\ CanLock(host.mutex)
    /\ host' = IF host.mutex.poisoned
               THEN [host EXCEPT !.pc[i] = "returned", !.result[i] = ErrResult]
               ELSE [host EXCEPT !.pc[i] = "call", !.mutex.holder = i]
    /\ UNCHANGED <<args, acc, ret, steps, tc, fc, call>>

\* The generator method returns: `Ok(generator.method(..))` is returned and
\* the guard is dropped at the end of the function.
Complete(i) ==
    /\ host.pc[i] = "call"
    /\ host' = [host EXCEPT !.pc[i] = "returned", !.result[i] = OkResult,
                            !.mutex.holder = IF @ = i THEN Free ELSE @]
    /\ UNCHANGED <<args, acc, ret, steps, tc, fc, call>>

\* The generator method panics: unwinding drops the guard, which poisons
\* the mutex and unlocks it.
Unwind(i) ==
    /\ host.pc[i] = "call"
    /\ host' = [host EXCEPT !.pc[i] = "panicked",
                            !.mutex.holder = IF @ = i THEN Free ELSE @,
                            !.mutex.poisoned = TRUE]
    /\ UNCHANGED <<args, acc, ret, steps, tc, fc, call>>

\* The steps the task of invocation i takes by itself.
Task(i) == Lock(i) \/ Complete(i) \/ Unwind(i)

NextHost ==
    \/ \E i \in Invocations : Invoke(i)
    \/ \E i \in Invocations : Lock(i)
    \/ \E i \in Invocations : Complete(i)
    \/ \E i \in Invocations : Unwind(i)

SpecHost == InitHost /\ [][NextHost]_vars

\* Every task is scheduled: the runtime keeps running a task that can step.
SpecHostFair == SpecHost /\ \A i \in Invocations : WF_vars(Task(i))

\* The invocations inside a generator method.
InGenerator == {i \in Invocations : host.pc[i] = "call"}

I32_MIN == -2147483647 - 1

\* i32 `%`: the remainder has the sign of the dividend (b > 0 here).
Rem(a, b) == IF a >= 0 THEN a % b ELSE -((-a) % b)

\* i32::abs: at i32::MIN it panics with overflow checks and wraps to
\* i32::MIN without them.
rule_new(variant, length, offset, symmetry, overflow_checks) ==
    IF variant = "wasm"
    THEN IF offset = I32_MIN /\ overflow_checks
         THEN Panicked("attempt to negate with overflow")
         ELSE Returned([heap |-> Repeat(-1, length), length |-> length,
                        offset |-> IF offset < 0 /\ offset # I32_MIN
                                   THEN -offset ELSE offset,
                        sign |-> IF offset < 0 THEN -1 ELSE 1,
                        symmetry |-> symmetry])
    ELSE Returned([heap |-> Repeat(-1, length), length |-> length,
                   offset |-> offset, sign |-> 1, symmetry |-> symmetry])

rule_add(rule, element) ==
    IF rule.length > 0
    THEN [rule EXCEPT !.heap = Tail(rule.heap) \o <<element>>]
    ELSE rule

rule_get(rule) == IF rule.length > 0 THEN rule.heap[1] ELSE -1

all_equal(rule) ==
    IF rule.length <= 1 THEN FALSE
    ELSE \A i \in 1..(rule.length - 1) : rule.heap[i] = rule.heap[i + 1]

\* A faulty check: the sign is not applied to the difference.
rule_check_unsigned(rule, vertex_count, index) ==
    IF ~all_equal(rule) THEN FALSE
    ELSE LET reference == rule_get(rule)
         IN  IF rule.symmetry
             THEN \/ Rem(index - reference, vertex_count) = rule.offset
                  \/ Rem(-index + reference, vertex_count) = rule.offset
             ELSE Rem(index - reference, vertex_count) = rule.offset

\* check: TRUE when the vertex cannot be chosen.
rule_check(rule, vertex_count, index) ==
    IF ~all_equal(rule) THEN FALSE
    ELSE LET reference == rule_get(rule)
         IN  IF rule.symmetry
             THEN \/ Rem(index - reference, vertex_count) = rule.offset
                  \/ Rem(-index + reference, vertex_count) = rule.offset
             ELSE Rem(rule.sign * (index - reference), vertex_count) = rule.offset

(***************************************************************************)
(* chaos_game_internal.  call keeps the locals of the call in progress:    *)
(* the points pushed so far, the current point, the rule and the number of *)
(* loop iterations left.  The rotations of the model are 0.0, whose cosine *)
(* is 1.0 and sine 0.0.                                                    *)
(***************************************************************************)
MaxVertices == 3
MaxIterations == 3
MaxLength == 2
MaxOffset == 1

Point2D(x, y) == [x |-> x, y |-> y]
Vertices == <<Point2D(Num(0), Num(0)), Point2D(Num(4), Num(0)),
              Point2D(Num(0), Num(4))>>
Transforms == <<[compression |-> Rat(1, 2), rotation |-> Num(0)],
                [compression |-> Num(1), rotation |-> Num(0)]>>
Cos(rotation) == Num(1)
Sin(rotation) == Num(0)

\* The point moved towards the vertex: rotation of the difference vector,
\* then compression.
apply_chaos_transform(current, vertex, transform) ==
    LET dx == FSub(vertex.x, current.x)
        dy == FSub(vertex.y, current.y)
        rotated_dx == FSub(FMul(dx, Cos(transform.rotation)),
                           FMul(dy, Sin(transform.rotation)))
        rotated_dy == FAdd(FMul(dx, Sin(transform.rotation)),
                           FMul(dy, Cos(transform.rotation)))
    IN  Point2D(FAdd(current.x, FMul(rotated_dx, transform.compression)),
                FAdd(current.y, FMul(rotated_dy, transform.compression)))

\* The locals at the head of the loop.  fractal-wasm pushes the start point
\* and loops over 1..iterations; fractal-cli-demo loops over 0..iterations.
ChaosEntry(variant, vertices, x0, y0, iterations, transforms, rule) ==
    LET start == Point2D(x0, y0)
        left == IF variant = "wasm"
                THEN (IF iterations > 1 THEN iterations - 1 ELSE 0)
                ELSE iterations
    IN  [op |-> "chaos_game", variant |-> variant, vertices |-> vertices,
         transforms |-> transforms, iterations |-> iterations, rule |-> rule,
         current |-> start,
         points |-> IF variant = "wasm" THEN <<start>> ELSE <<>>,
         left |-> left,
         pc |-> IF left = 0 THEN "done" ELSE "select"]

\* The loop body once select_vertex returned vertex_index.
ChaosBody(c, vertex_index) ==
    IF c.variant = "wasm" /\ Len(c.transforms) = 0
    THEN [c EXCEPT !.pc = "panic"]
    ELSE LET vertex == c.vertices[vertex_index + 1]
             transform ==
                 IF c.variant = "wasm"
                 THEN c.transforms[(vertex_index % Len(c.transforms)) + 1]
                 ELSE IF Len(c.transforms) = 0
                      THEN [compression |-> Rat(1, 2), rotation |-> Num(0)]
                      ELSE c.transforms[1]
             moved == apply_chaos_transform(c.current, vertex, transform)
         IN  [c EXCEPT !.current = moved, !.points = @ \o <<moved>>,
                       !.left = @ - 1,
                       !.pc = IF c.left = 1 THEN "done" ELSE "select"]

InitChaos ==
    /\ InitWith(IdentityMap, <<Num(1), Num(1)>>, <<1, 1>>)
    /\ tc = NoTest /\ fc = NoFind /\ host = NoHost
    /\ \E variant \in {"wasm", "cli"}, vertex_count \in 0..MaxVertices,
          transform_count \in 0..Len(Transforms), iterations \in 0..MaxIterations,
          length \in 0..MaxLength, offset \in (-MaxOffset)..MaxOffset,
          symmetry \in BOOLEAN :
        call = ChaosEntry(variant, SubSeq(Vertices, 1, vertex_count),
                          Num(1), Num(1), iterations,
                          SubSeq(Transforms, 1, transform_count),
                          rule_new(variant, length, offset, symmetry, FALSE).val)

\* gen_range(0..vertex_count) on an empty range panics.
EmptyRange ==
    /\ call.pc = "select"
    /\ Len(call.vertices) = 0
    /\ call' = [call EXCEPT !.pc = "panic"]
    /\ UNCHANGED <<args, acc, ret, steps, tc, fc, host>>

\* One turn of the loop of select_vertex: an index is drawn; a forbidden
\* index is drawn again, a permitted one is added to the rule and the loop
\* body of chaos_game_internal runs with it.
SelectVertex ==
    /\ call.pc = "select"
    /\ \E index \in 0..(Len(call.vertices) - 1) :
        call' = IF rule_check(call.rule, Len(call.vertices), index)
                THEN call
                ELSE ChaosBody([call EXCEPT !.rule = rule_add(@, index)], index)
    /\ UNCHANGED <<args, acc, ret, steps, tc, fc, host>>

NextChaos == EmptyRange \/ SelectVertex

SpecChaos == InitChaos /\ [][NextChaos]_vars

\* The rule of the call forbids nothing: its history is too short for
\* all_equal.
ForbidsNothing(rule) == rule.length <= 1

\* C21 (chaos-game length): chaos_game with a non-empty vertex list and a
\* rule that forbids nothing returns exactly `iterations` points, for every
\* iterations >= 0.
ChaosGameLength ==
    (call.pc = "done" /\ Len(call.vertices) > 0 /\ ForbidsNothing(call.rule))
        => Len(call.points) = call.iterations

\* C29 (vertex selection terminates): whenever select_vertex draws among one
\* vertex or more, whatever the rule and the history of selected vertices,
\* at least one vertex index is permitted by check.
VertexPermitted ==
    (call.pc = "select" /\ Len(call.vertices) >= 1)
        => \E index \in 0..(Len(call.vertices) - 1) :
               ~rule_check(call.rule, Len(call.vertices), index)

(***************************************************************************)
(* The two Rule implementations side by side: both are made by new with    *)
(* the same arguments and receive the same add calls.  call keeps the two  *)
(* rules and the last check made on both.                                  *)
(***************************************************************************)
MaxAdds == 3
RuleOffsets == ((-MaxOffset)..MaxOffset) \cup {I32_MIN}
Elements == (-1)..1

\* check on what new returned: nothing to check when new panicked.
CheckOn(made, vertex_count, index) ==
    IF made.panic THEN made
    ELSE Returned(rule_check(made.val, vertex_count, index))

InitRule ==
    /\ InitWith(IdentityMap, <<Num(1), Num(1)>>, <<1, 1>>)
    /\ tc = NoTest /\ fc = NoFind /\ host = NoHost
    /\ \E length \in 0..MaxLength, offset \in RuleOffsets, symmetry \in BOOLEAN,
          overflow_checks \in BOOLEAN :
        call = [op |-> "rule", length |-> length, offset |-> offset,
                symmetry |-> symmetry,
                wasm |-> rule_new("wasm", length, offset, symmetry, overflow_checks),
                cli |-> rule_new("cli", length, offset, symmetry, overflow_checks),
                adds |-> 0, checked |-> <<>>]

RuleAdd ==
    /\ call.adds < MaxAdds
    /\ \E element \in Elements :
        call' = [call EXCEPT
                    !.wasm = IF @.panic THEN @ ELSE Returned(rule_add(@.val, element)),
                    !.cli = Returned(rule_add(@.val, element)),
                    !.adds = @ + 1, !.checked = <<>>]
    /\ UNCHANGED <<args, acc, ret, steps, tc, fc, host>>

RuleCheck ==
    /\ \E vertex_count \in 1..MaxVertices, index \in 0..(MaxVertices - 1) :
        call' = [call EXCEPT !.checked =
                    <<[vertex_count |-> vertex_count, index |-> index,
                       wasm |-> CheckOn(call.wasm, vertex_count, index),
                       cli |-> CheckOn(call.cli, vertex_count, index)]>>]
    /\ UNCHANGED <<args, acc, ret, steps, tc, fc, host>>

NextRule == RuleAdd \/ RuleCheck

SpecRule == InitRule /\ [][NextRule]_vars

\* The two rules answer every check alike, the last one made included.
SameChecks ==
    /\ ~call.wasm.panic
    /\ \A vertex_count \in 1..MaxVertices, index \in (-1)..MaxVertices :
           rule_check(call.wasm.val, vertex_count, index)
               = rule_check(call.cli.val, vertex_count, index)
    /\ \A i \in DOMAIN call.checked : call.checked[i].wasm = call.checked[i].cli

MaxSide == 2

\* f64::min and f64::max: a NaN operand is ignored.
FMin(a, b) == IF IsNaN(a) THEN b ELSE IF IsNaN(b) THEN a ELSE IF FLt(b, a) THEN b ELSE a
FMax(a, b) == IF IsNaN(a) THEN b ELSE IF IsNaN(b) THEN a ELSE IF FGt(b, a) THEN b ELSE a

RECURSIVE FoldMin(_, _)
FoldMin(q, m) == IF q = <<>> THEN m ELSE FoldMin(Tail(q), FMin(m, Head(q)))
RECURSIVE FoldMax(_, _)
FoldMax(q, m) == IF q = <<>> THEN m ELSE FoldMax(Tail(q), FMax(m, Head(q)))

\* `((v - lo) / range * (size - 1) as f64) as usize`, where size - 1 has
\* wrapped to usize::MAX when size = 0: the product is 0 or saturates.
PixelOn(v, lo, range, size) ==
    LET frac == FDiv(FSub(v, lo), range)
    IN  IF size = 0
        THEN (IF FPos(frac) THEN 2147483647 ELSE 0)
        ELSE AsUsize(FMul(frac, Num(size - 1)))

\* The loop that counts the points per pixel.
RECURSIVE CountPoints(_, _, _, _, _)
CountPoints(points, grid, b, width, height) ==
    IF points = <<>> THEN grid
    ELSE LET point == Head(points)
             px == PixelOn(point.x, b.x_min, b.x_range, width)
             py == PixelOn(point.y, b.y_min, b.y_range, height)
         IN  CountPoints(Tail(points),
                 IF px < width /\ py < height
                 THEN [grid EXCEPT ![py * width + px + 1] = @ + 1]
                 ELSE grid,
                 b, width, height)

\* The four bytes of pixel i (from 0) of the image.
PixelBytes(count, max_density, color_scheme) ==
    IF count > 0
    THEN LET c == [count |-> count, max_density |-> max_density,
                   scheme |-> color_scheme]
         IN  <<[r |-> c], [g |-> c], [b |-> c], 255>>
    ELSE <<0, 0, 0, 255>>

points_to_rgba(points, width, height, color_scheme, overflow_checks) ==
    IF points = <<>> THEN Returned(Repeat(0, width * height * 4))
    ELSE
    LET xs == [i \in 1..Len(points) |-> points[i].x]
        ys == [i \in 1..Len(points) |-> points[i].y]
        x_min == FoldMin(xs, xs[1])
        x_max == FoldMax(xs, xs[1])
        y_min == FoldMin(ys, ys[1])
        y_max == FoldMax(ys, ys[1])
        x_range == FSub(x_max, x_min)
        y_range == FSub(y_max, y_min)
    IN  IF x_range = Num(0) \/ y_range = Num(0)
        THEN Returned(Repeat(0, width * height * 4))
        ELSE IF overflow_checks /\ (width = 0 \/ height = 0)
        THEN Panicked("attempt to subtract with overflow")
        ELSE
        LET grid == CountPoints(points, Repeat(0, width * height),
                                [x_min |-> x_min, x_range |-> x_range,
                                 y_min |-> y_min, y_range |-> y_range],
                                width, height)
            max_density == IF grid = <<>> THEN 1 ELSE SeqMax(grid)
        IN  Returned([i \in 1..(width * height * 4) |->
                         PixelBytes(grid[((i - 1) \div 4) + 1], max_density,
                                    color_scheme)[((i - 1) % 4) + 1]])

\* The point lists a caller can pass: none, one point, equal points, points
\* spread out.
PointLists ==
    {<<>>,
     <<Point2D(Num(0), Num(0))>>,
     <<Point2D(Num(1), Num(1)), Point2D(Num(1), Num(1))>>,
     <<Point2D(Num(0), Num(0)), Point2D(Num(1), Num(1))>>,
     <<Point2D(Num(0), Num(0)), Point2D(Num(1), Num(1)), Point2D(Num(-1), Num(-1))>>,
     <<Point2D(Num(0), Num(0)), Point2D(Num(0), Num(0)), Point2D(Num(2), Num(1))>>}

PointsToRgba ==
    \E points \in PointLists, width \in 0..MaxSide, height \in 0..MaxSide,
       color_scheme \in {"Inferno", "Magma"}, overflow_checks \in BOOLEAN :
        /\ call' = [op |-> "points_to_rgba", points |-> points, width |-> width,
                    height |-> height, color_scheme |-> color_scheme,
                    out |-> points_to_rgba(points, width, height, color_scheme,
                                           overflow_checks)]
        /\ UNCHANGED <<args, acc, ret, steps, tc, fc, host>>

NextImage == PointsToRgba

SpecImage == InitBoundary /\ [][NextImage]_vars

\* C22 (image size): points_to_rgba returns exactly width * height * 4 bytes
\* for every point list and every width and height, 0 included, without
\* panicking.
ImageSize ==
    call.op = "points_to_rgba" =>
        /\ ~call.out.panic
        /\ Len(call.out.val) = call.width * call.height * 4

(***************************************************************************)
(* The choice of backing in ChaoticAccumulator::new on machine words.      *)
(* `width * height` is a usize multiplication: with overflow checks it     *)
(* panics when the product leaves the word, without them it wraps.         *)
(***************************************************************************)
Byte == 16 * 16

\* The four bytes of a word, lowest first.
Bytes(a) == <<a.lo % Byte, a.lo \div Byte, a.hi % Byte, a.hi \div Byte>>

\* Digit k (from 0) of the product of two words, before carries.
Column(x, y, k) ==
    LET Term(i) == IF k - i >= 0 /\ k - i <= 3 THEN x[i + 1] * y[k - i + 1] ELSE 0
    IN  Term(0) + Term(1) + Term(2) + Term(3)

\* a * b, wrapped, and whether it overflowed.
wrapping_mul_usize(a, b) ==
    LET x == Bytes(a)
        y == Bytes(b)
        c0 == Column(x, y, 0)
        c1 == Column(x, y, 1) + (c0 \div Byte)
        c2 == Column(x, y, 2) + (c1 \div Byte)
        c3 == Column(x, y, 3) + (c2 \div Byte)
        c4 == Column(x, y, 4) + (c3 \div Byte)
        c5 == Column(x, y, 5) + (c4 \div Byte)
        c6 == Column(x, y, 6) + (c5 \div Byte)
    IN  [w |-> Word((c3 % Byte) * Byte + (c2 % Byte),
                    (c1 % Byte) * Byte + (c0 % Byte)),
         overflow |-> c4 % Byte # 0 \/ c5 % Byte # 0 \/ c6 # 0]

\* The stores ChaoticAccumulator::new builds for a width and a height; a
\* store is kept as its length.
new_usize(width, height, overflow_checks) ==
    LET product == wrapping_mul_usize(width, height)
        total_pixels == product.w
        use_chunked == WLt(ToWord(MAX_CONTIGUOUS_PIXELS), total_pixels)
    IN  IF overflow_checks /\ product.overflow
        THEN Panicked("attempt to multiply with overflow")
        ELSE Returned([width |-> width, height |-> height,
                       density |-> IF use_chunked THEN None ELSE Some(total_pixels),
                       sparse_rows |-> IF use_chunked THEN Some(height) ELSE None,
                       use_chunked |-> use_chunked])

\* Widths and heights on both sides of the ceiling and of the word.
Sides ==
    {ToWord(0), ToWord(1), ToWord(2), ToWord(5000), ToWord(7071), ToWord(7072),
     ToWord(10000), ToWord(50000), ToWord(Limb - 1), ToWord(Limb),
     ToWord(MAX_CONTIGUOUS_PIXELS), ToWord(MAX_CONTIGUOUS_PIXELS + 1),
     Word(Limb \div 2, 0), WordMax}

NewAccumulator ==
    \E width \in Sides, height \in Sides, overflow_checks \in BOOLEAN :
        /\ call' = [op |-> "new", width |-> width, height |-> height,
                    out |-> new_usize(width, height, overflow_checks)]
        /\ UNCHANGED <<args, acc, ret, steps, tc, fc, host>>

NextBacking == NewAccumulator

SpecBacking == InitBoundary /\ [][NextBacking]_vars

\* Whether the exact product width * height is above MAX_CONTIGUOUS_PIXELS.
ExceedsCeiling(width, height) ==
    IF width = ToWord(0) \/ height = ToWord(0) THEN FALSE
    ELSE IF WLt(ToWord(MAX_CONTIGUOUS_PIXELS), height) THEN TRUE
    ELSE WLt(ToWord(MAX_CONTIGUOUS_PIXELS \div Small(height)), width)

\* C23 (backing selection): for every width and height, products beyond the
\* machine word included, the accumulator is built, sparse exactly when
\* width * height > 50,000,000 and dense otherwise, with exactly one store.
BackingSelection ==
    call.op = "new" =>
        /\ ~call.out.panic
        /\ call.out.val.use_chunked = ExceedsCeiling(call.width, call.height)
        /\ call.out.val.sparse_rows.some = call.out.val.use_chunked
        /\ call.out.val.density.some = ~call.out.val.use_chunked

(***************************************************************************)
(* The sparse store under its two writers, set_density and                 *)
(* increment_density, applied in any order to any cell.                    *)
(***************************************************************************)
MaxOps == 3
CellValues == {0, 1, U16_MAX - 1, U16_MAX}

InitSparse ==
    /\ InitWith(IdentityMap, <<Num(1), Num(1)>>, <<2, 2>>)
    /\ tc = NoTest /\ fc = NoFind /\ host = NoHost
    /\ call = [op |-> "new", a |-> acc["sparse"], before |-> acc["sparse"],
               idx |-> 0, value |-> 0, ops |-> 0]

MoreOps == call.op \in {"new", "set_density", "increment_density"} /\ call.ops < MaxOps

SetDensity ==
    \E idx \in 0..(call.a.width * call.a.height), value \in CellValues :
        /\ MoreOps
        /\ call' = [op |-> "set_density", a |-> set_density(call.a, idx, value),
                    before |-> call.a, idx |-> idx, value |-> value,
                    ops |-> call.ops + 1]
        /\ UNCHANGED <<args, acc, ret, steps, tc, fc, host>>

IncrementDensity ==
    \E idx \in 0..(call.a.width * call.a.height) :
        /\ MoreOps
        /\ call' = [op |-> "increment_density",
                    a |-> increment_density(call.a, idx).acc,
                    before |-> call.a, idx |-> idx, value |-> 0,
                    ops |-> call.ops + 1]
        /\ UNCHANGED <<args, acc, ret, steps, tc, fc, host>>

NextSparse == SetDensity \/ IncrementDensity

SpecSparse == InitSparse /\ [][NextSparse]_vars

\* The keys of a sparse store, as cell indices.
Keys(a) ==
    {<<row, col>> \in (1..Len(a.sparse_rows.v)) \X (0..(a.width - 1)) :
        col \in DOMAIN a.sparse_rows.v[row]}

\* C24 (sparse absence): in every state of a sparse accumulator every
\* stored value is in 1..65535, so 0 is never stored (setting a cell to 0
\* removes its key), and there are as many keys as non-zero cells.
SparseAbsence ==
    call.op \in {"new", "set_density", "increment_density"} =>
        /\ call.a.use_chunked /\ call.a.sparse_rows.some
        /\ \A row \in 1..Len(call.a.sparse_rows.v) :
              \A col \in DOMAIN call.a.sparse_rows.v[row] :
                  /\ col \in 0..(call.a.width - 1)
                  /\ call.a.sparse_rows.v[row][col] \in 1..U16_MAX
        /\ Cardinality(Keys(call.a))
             = Cardinality({idx \in 0..(call.a.width * call.a.height - 1) :
                               get_density(call.a, idx) # 0})

\* A saturated cell was set to 0 and its key is gone, while another cell
\* still holds a count.
SparseAbsenceSeen ==
    /\ call.op = "set_density" /\ call.value = 0
    /\ get_density(call.before, call.idx) = U16_MAX
    /\ get_density(call.a, call.idx) = 0
    /\ Cardinality(Keys(call.before)) = 2
    /\ Cardinality(Keys(call.a)) = 1

(***************************************************************************)
(* The fixed-point counter of test_chaos: tests long enough to reach       *)
(* STUCK_LIMIT, of maps whose orbits stop, move, or do both in turn.       *)
(***************************************************************************)
MaxMeasure == 44
MeasureCounts == {0, 1, STUCK_LIMIT - 1, STUCK_LIMIT, STUCK_LIMIT + 1, MaxMeasure}

\* x' = 2x - 1/20, y' = 1 - y: x rests on the seed, a repelling fixed point.
PinMap == [x_params |-> <<Rat(-1, 20), Num(2), Num(0), Num(0), Num(0), Num(0)>>,
           y_params |-> Coeffs(<<1, 0, 0, 0, -1, 0>>), is_cubic |-> FALSE]
\* x' = 1 - x, y' = x + y - 19/20: y moves on every other step.
StickMap == [x_params |-> Coeffs(<<1, -1, 0, 0, 0, 0>>),
             y_params |-> <<Rat(-19, 20), Num(1), Num(0), Num(0), Num(1), Num(0)>>,
             is_cubic |-> FALSE]
\* x' = x - y, y' = x: a map of period 6, on four of whose six steps one
\* coordinate stays.
HexMap == [x_params |-> Coeffs(<<0, 1, 0, 0, -1, 0>>),
           y_params |-> Coeffs(<<0, 1, 0, 0, 0, 0>>), is_cubic |-> FALSE]
\* x' = 1, y' = 1: the orbit moves once and stops.
ConstMap == [x_params |-> Coeffs(<<1, 0, 0, 0, 0, 0>>),
             y_params |-> Coeffs(<<1, 0, 0, 0, 0, 0>>), is_cubic |-> FALSE]
StuckMaps == {PinMap, StickMap, HexMap, ConstMap, SwingMap, IdentityMap, CreepMap}

InitStuck ==
    /\ InitWith(IdentityMap, <<Num(1), Num(1)>>, <<1, 1>>)
    /\ \E m \in StuckMaps, n_trans \in 0..1, n_test \in MeasureCounts :
          tc = Entry(m.x_params, m.y_params, n_trans, n_test, Num(ThreshArg),
                     m.is_cubic)
    /\ fc = NoFind /\ call = NoCall /\ host = NoHost

SpecStuck == InitStuck /\ [][NextLyap]_vars

\* |x - x_prev| < 1e-16 or |y - y_prev| < 1e-16, between two states of a test.
BarelyMoved(t, u) ==
    \/ BelowTiny(FAbs(FSub(u.x, t.x)))
    \/ BelowTiny(FAbs(FSub(u.y, t.y)))

\* The tangent basis, the three sums and the number of finished steps.
Progress(t) == <<t.v1, t.v2, t.max_le, t.min_le, t.c, t.i>>

\* C25 (degeneracy counter): the counter is 0 when the measurement starts;
\* a measured step that does not diverge raises it by 1 when the orbit
\* barely moved and lowers it by 1, not below 0, when it moved; the test
\* returns (-1, -1, -1) at the first step where it reaches 15; a step that
\* aborts leaves the tangent basis and the three sums as they were.
DegeneracyCounter ==
    [][(tc.pc = "run" /\ tc'.pc \in {"run", "done"})
       => /\ (tc.i = 0 => tc.count = 0)
          /\ tc.count < STUCK_LIMIT
          /\ (tc'.i = tc.i + 1 \/ (tc'.pc = "done" /\ tc.i < tc.n_test))
             => /\ ~check_unbounded(tc'.x, tc'.y, tc.thresh)
                   => /\ tc'.count = IF BarelyMoved(tc, tc') THEN tc.count + 1
                                     ELSE IF tc.count > 0 THEN tc.count - 1 ELSE 0
                      /\ (tc'.count = STUCK_LIMIT)
                            <=> (tc'.pc = "done" /\ tc'.ret = Sentinel)
                /\ tc'.pc = "done" => Progress(tc') = Progress(tc)
                /\ tc'.pc = "run" => tc'.i = tc.i + 1]_vars

\* A test was aborted at the step where the counter reached 15 after it had
\* fallen from 2 or more on an earlier step, with sums that are not 0.
DegeneracyCounterSeen ==
    /\ tc.pc = "done" /\ tc.ret = Sentinel
    /\ tc.count = STUCK_LIMIT
    /\ tc.i > STUCK_LIMIT
    /\ tc.args1 = HexMap.x_params
    /\ tc.max_le # Num(0)

(***************************************************************************)
(* The mapping cached by fill_rgba_log_soft.                               *)
(***************************************************************************)
\* The largest count of the exported grid.
LargestCount(a) == SeqMax(density(a))

\* A step is the call fill_rgba_log_soft(color_scheme, softness) on a canvas
\* of non-zero width and height.
Fills(color_scheme, softness) ==
    /\ args.width # 0 /\ args.height # 0
    /\ \A b \in Backings : ret'[b].op = "fill_rgba_log_soft"
    /\ acc' = [b \in Backings |-> fill_rgba_log_soft(acc[b], color_scheme, softness)]

\* What every such call caches, whatever the softness.
CachesMapping(b, color_scheme) ==
    /\ acc'[b].map_ready
    /\ acc'[b].map_max_density = LargestCount(acc[b])
    /\ acc'[b].map_color_scheme = color_scheme
    /\ (LargestCount(acc[b]) = 0 => acc'[b].map_denom = Num(0))

\* C26 (mapping cache), as stated: after fillMapping(scheme, softness) on a
\* canvas of non-zero width and height the cache is valid, the cached
\* maximum is the largest cell count, the cached scheme is the given scheme,
\* the cached softness is the given softness, and a maximum of 0 caches the
\* denominator 0.
MappingCache ==
    [][\A color_scheme \in Schemes, softness \in Softness :
          Fills(color_scheme, softness)
          => \A b \in Backings :
                /\ CachesMapping(b, color_scheme)
                /\ acc'[b].map_s = softness]_vars

\* C26, corrected: the cached softness is the given softness when that is
\* finite and positive, and 1 otherwise.
MappingCacheValidSoftness ==
    [][\A color_scheme \in Schemes, softness \in Softness :
          Fills(color_scheme, softness)
          => \A b \in Backings :
                /\ CachesMapping(b, color_scheme)
                /\ acc'[b].map_s = IF IsFinite(softness) /\ FGt(softness, Num(0))
                                   THEN softness ELSE Num(1)]_vars

\* A mapping was cached on a grid with a count of 2 or more, on both
\* backings, with the softness 1 in place of the one given.
MappingCacheSeen ==
    \A b \in Backings :
        /\ ret[b].op = "fill_rgba_log_soft"
        /\ acc[b].map_ready
        /\ acc[b].map_max_density >= 2
        /\ acc[b].map_max_density = LargestCount(acc[b])
        /\ acc[b].map_s = Num(1)

(***************************************************************************)
(* get_rgba_rows on the two backings.                                      *)
(***************************************************************************)
\* The cached mapping of an accumulator.
CachedMapping(a) ==
    <<a.map_ready, a.map_s, a.map_denom, a.map_color_scheme, a.map_max_density>>

\* C27 (render equivalence of backings): for the same grid contents and the
\* same cached mapping, get_rgba_rows returns the same bytes on the dense
\* and on the sparse backing, cells of count 0 included.
RenderEquivalence ==
    (/\ \A b \in Backings : ret[b].op = "get_rgba_rows"
     /\ density(acc["dense"]) = density(acc["sparse"])
     /\ CachedMapping(acc["dense"]) = CachedMapping(acc["sparse"]))
    => ret["dense"].val = ret["sparse"].val

(***************************************************************************)
(* What the operations of an accumulator leave alone.                      *)
(***************************************************************************)
\* The step is a call of op on both accumulators.
Calls(op) == \A b \in Backings : ret'[b].op = op

\* a with the orbit position, the density store and the non-zero count of c.
WithOrbitAndStore(a, c) ==
    [a EXCEPT !.x = c.x, !.y = c.y, !.density = c.density,
              !.sparse_rows = c.sparse_rows, !.non_zero = c.non_zero]

\* C28 (frame): step_batch changes only the orbit position, the density
\* store and the non-zero count, and leaves the cached mapping as it was;
\* fill_rgba_log_soft, get_rgba_rows and density() leave the orbit position,
\* every cell count and the non-zero count as they were.
Frame ==
    [][/\ Calls("step_batch")
          => \A b \in Backings :
                /\ WithOrbitAndStore(acc'[b], acc[b]) = acc[b]
                /\ CachedMapping(acc'[b]) = CachedMapping(acc[b])
       /\ (Calls("fill_rgba_log_soft") \/ Calls("get_rgba_rows") \/ Calls("density"))
          => \A b \in Backings :
                /\ acc'[b].x = acc[b].x /\ acc'[b].y = acc[b].y
                /\ acc'[b].density = acc[b].density
                /\ acc'[b].sparse_rows = acc[b].sparse_rows
                /\ density(acc'[b]) = density(acc[b])
                /\ acc'[b].non_zero = acc[b].non_zero]_vars

\* Rows were rendered with a mapping cached before later steps raised the
\* largest count: the cache is still that of the last fill_rgba_log_soft.
FrameSeen ==
    \A b \in Backings :
        /\ ret[b].op = "get_rgba_rows"
        /\ Len(ret[b].val) > 0
        /\ acc[b].map_ready
        /\ acc[b].map_max_density >= 1
        /\ acc[b].map_max_density < LargestCount(acc[b])

=============================================================================
